---- MODULE Spec2Model ----
(***************************************************************************)
(* A model of the OSS-Fuzz helper module: the build-script target          *)
(* extractor (custom_fuzzing/api.py, utils/client.py), the input           *)
(* validators (utils/common.py) and the repository reader                  *)
(* (utils/client.py).                                                      *)
(*                                                                         *)
(* Text is modelled as sequences of atoms: an atom is an indivisible       *)
(* piece of text ("curl", "_fuzzer", "$OUT").  A path-like word of a       *)
(* build script is a token: the sequence of its "/"-separated segments,    *)
(* each segment a sequence of atoms.  A script is a sequence of lines, a   *)
(* line a sequence of whitespace-separated tokens.                         *)
(***************************************************************************)
EXTENDS Integers, Sequences, FiniteSets, TLC

VARIABLES
  \* target extraction: the project, its build.sh, the caller's position
  \* and the list returned
  project_name, build_sh, ext_pc, ext_ret,
  \* validate_project_name: the argument, the caller's position, the
  \* outcome of the call and of the call on its result
  name_in, val_pc, val_ret1, val_ret2,
  \* validate_date_range: datetime.now(), the two arguments, the caller's
  \* position and the outcome
  clock, start_in, end_in, date_pc, date_ret,
  \* the repository reader: the client's oss_fuzz_dir, whether its
  \* projects directory exists, what is under it, the caller's position,
  \* the project name passed and the outcome
  oss_fuzz_dir, projects_exists, tree, repo_pc, repo_arg, repo_ret,
  \* the data model: the class constructed, the optional arguments passed,
  \* the caller's position and the object built
  cls, ctor_args, rec_pc, obj,
  \* the client and its surroundings: OSS_FUZZ_DIR, what is at each candidate
  \* root, the project directories under each, whether credentials exist,
  \* the client's oss_fuzz_dir and its cached_projects
  environ, where, proj, creds, client_dir, cached_projects,
  \* a call of a client method or public function: the function, its
  \* arguments, the caller's position, the outcome and the filesystem
  \* operations the call has performed
  call_fn, call_args, call_pc, call_ret, fs_log,
  \* the list objects the client has allocated, by identity, and the lists
  \* assigned to cached_projects so far, in order
  heap, stores,
  \* concurrent callers of get_projects: each caller's position, its local
  \* variables and the list it was handed
  th_pc, th_loc, th_ret,
  \* local fuzzing: the output directory of a run, whether the fuzz target
  \* binary exists, the caller's position, the arguments of the run, and
  \* the results of run_local_fuzzing and of analyze_fuzzing_results
  fz_files, fz_target, fz_pc, fz_args, fz_run, fz_an,
  \* a fuzzing session: the files setup_local_fuzzing has written that still
  \* exist, and the fuzz_target_path its last successful call returned
  disk, setup_path

extVars == <<project_name, build_sh, ext_pc, ext_ret>>

valVars == <<name_in, val_pc, val_ret1, val_ret2>>

dateVars == <<clock, start_in, end_in, date_pc, date_ret>>

repoVars ==
  <<oss_fuzz_dir, projects_exists, tree, repo_pc, repo_arg, repo_ret>>

recVars == <<cls, ctor_args, rec_pc, obj>>

cliVars == <<environ, where, proj, creds, client_dir, cached_projects>>

callVars == <<call_fn, call_args, call_pc, call_ret, fs_log>>

memVars == <<heap, stores>>

thrVars == <<th_pc, th_loc, th_ret>>

fzVars == <<fz_files, fz_target, fz_pc, fz_args, fz_run, fz_an>>

sesVars == <<disk, setup_path>>

vars == <<extVars, valVars, dateVars, repoVars, recVars, cliVars, callVars, memVars, thrVars, fzVars, sesVars>>

\* the variables outside each part of the model
notExt == <<valVars, dateVars, repoVars, recVars, cliVars, callVars, memVars, thrVars, fzVars, sesVars>>

notVal == <<extVars, dateVars, repoVars, recVars, cliVars, callVars, memVars, thrVars, fzVars, sesVars>>

notDate == <<extVars, valVars, repoVars, recVars, cliVars, callVars, memVars, thrVars, fzVars, sesVars>>

notRepo == <<extVars, valVars, dateVars, recVars, cliVars, callVars, memVars, thrVars, fzVars, sesVars>>

notRec == <<extVars, valVars, dateVars, repoVars, cliVars, callVars, memVars, thrVars, fzVars, sesVars>>

notCli == <<extVars, valVars, dateVars, repoVars, recVars, callVars, memVars, thrVars, fzVars, sesVars>>

notCall == <<extVars, valVars, dateVars, repoVars, recVars, cliVars, memVars, thrVars, fzVars, sesVars>>

\* the variables outside the client and its calls
notClient == <<extVars, valVars, dateVars, repoVars, recVars, memVars, thrVars, fzVars, sesVars>>

notMem == <<extVars, valVars, dateVars, repoVars, recVars, cliVars, callVars, thrVars, fzVars, sesVars>>

notThr == <<extVars, valVars, dateVars, repoVars, recVars, cliVars, callVars, memVars, fzVars, sesVars>>

-----------------------------------------------------------------------------
(* Bounds of the model.                                                    *)

MaxLines == 2

MaxNameLen == 3

\* the number of names under projects/
NumProjects == 2

-----------------------------------------------------------------------------
(* Character classes of the extraction patterns, lifted to atoms.          *)

\* atoms all of whose characters are in the class [\w_-]
WordAtom ==
  {"cp", "-o", "compile_go_fuzzer", "compile_rust_fuzzer",
   "curl", "zlib", "_fuzzer", "alpha", "beta", "src", "Fuzz"}

\* atoms of the class [\w\./] that are not word atoms
DotAtom == {"."}

\* a one-atom, one-segment token
Tok(a) == << <<a>> >>

\* the token $OUT/<name>
OutTok(name) == << <<"$OUT">>, name >>

\* length of the longest prefix of a segment made of [\w_-] characters
WordPrefixLen(seg) ==
  CHOOSE n \in 0..Len(seg) :
    /\ \A i \in 1..n : seg[i] \in WordAtom
    /\ (n = Len(seg) \/ seg[n + 1] \notin WordAtom)

WordPrefix(seg) == SubSeq(seg, 1, WordPrefixLen(seg))

\* the token is, as a whole, a match of [\w_-]+
IsWordTok(tok) ==
  /\ Len(tok) = 1
  /\ Len(tok[1]) >= 1
  /\ WordPrefixLen(tok[1]) = Len(tok[1])

\* the token is, as a whole, a match of [\w\./]+
IsPathTok(tok) ==
  /\ Len(tok) >= 1
  /\ (Len(tok) = 1 => Len(tok[1]) >= 1)
  /\ \A s \in 1..Len(tok) : \A i \in 1..Len(tok[s]) :
        tok[s][i] \in WordAtom \cup DotAtom

\* the token starts with a match of \$OUT/[\w_-]+
IsOutTok(tok) ==
  /\ Len(tok) >= 2
  /\ tok[1] = <<"$OUT">>
  /\ WordPrefixLen(tok[2]) >= 1

\* the text of the token ends with the atom a
EndsWith(tok, a) ==
  /\ Len(tok) >= 1
  /\ Len(tok[Len(tok)]) >= 1
  /\ tok[Len(tok)][Len(tok[Len(tok)])] = a

\* the text of the token contains the atom a
Contains(tok, a) ==
  \E s \in 1..Len(tok) : \E i \in 1..Len(tok[s]) : tok[s][i] = a

\* the text of the token contains the text "$CXX"
ContainsCXX(tok) == Contains(tok, "$CXX") \/ Contains(tok, "$CXXFLAGS")

-----------------------------------------------------------------------------
(* re.findall for the four patterns of fuzz_patterns.  \s+ matches line    *)
(* breaks, so the copy and helper patterns see the script as one run of    *)
(* tokens; "." does not, so the compile+link pattern is matched per line   *)
(* (only its final \s+ may cross a line break).                            *)

RECURSIVE Flatten(_)
Flatten(lines) ==
  IF lines = <<>> THEN <<>> ELSE Head(lines) \o Flatten(Tail(lines))

\* the text matched by the group (\$OUT/[\w_-]+) at the start of a token
OutCapture(tok) == <<tok[1], WordPrefix(tok[2])>>

\* the text matched by the group ([\w_-]+) at the start of a token
WordCapture(tok) == <<WordPrefix(tok[1])>>

\* the group consumed the token to its end
OutConsumed(tok) == Len(tok) = 2 /\ WordPrefixLen(tok[2]) = Len(tok[2])

WordConsumed(tok) == Len(tok) = 1 /\ WordPrefixLen(tok[1]) = Len(tok[1])

\* the token that follows token m of line k, across line breaks
FollowTok(script, k, m) ==
  IF m < Len(script[k])
    THEN <<script[k][m + 1]>>
    ELSE LET rest == Flatten(SubSeq(script, k + 1, Len(script)))
         IN  IF rest = <<>> THEN <<>> ELSE <<Head(rest)>>

\* \$CXX.*\$CXXFLAGS.*\$LIB_FUZZING_ENGINE.*-o\s+(\$OUT/[\w_-]+)
\* matches on line k with its "-o" at token m
LinkAt(script, k, m) ==
  LET L == script[k]
      f == FollowTok(script, k, m)
  IN  /\ EndsWith(L[m], "-o")
      /\ \E i, j, l \in 1..Len(L) :
            /\ i < j /\ j < l /\ l < m
            /\ ContainsCXX(L[i])
            /\ Contains(L[j], "$CXXFLAGS")
            /\ Contains(L[l], "$LIB_FUZZING_ENGINE")
      /\ f # <<>>
      /\ IsOutTok(f[1])

\* the greedy .* before -o takes the last "-o" of the line that can match
RECURSIVE FindLink(_, _)
FindLink(script, k) ==
  IF k > Len(script) THEN <<>>
  ELSE LET ms == {m \in 1..Len(script[k]) : LinkAt(script, k, m)}
       IN  IF ms = {} THEN FindLink(script, k + 1)
           ELSE LET m == CHOOSE x \in ms : \A y \in ms : y <= x
                IN  <<OutCapture(FollowTok(script, k, m)[1])>>
                      \o FindLink(script, k + 1)

\* cp\s+[\w_-]+\s+(\$OUT/[\w_-]+)
RECURSIVE FindCp(_, _)
FindCp(t, i) ==
  IF i + 2 > Len(t) THEN <<>>
  ELSE IF EndsWith(t[i], "cp") /\ IsWordTok(t[i + 1]) /\ IsOutTok(t[i + 2])
    THEN <<OutCapture(t[i + 2])>>
           \o FindCp(t, IF OutConsumed(t[i + 2]) THEN i + 3 ELSE i + 2)
    ELSE FindCp(t, i + 1)

\* compile_go_fuzzer\s+[\w\./]+\s+([\w_-]+) and the same for
\* compile_rust_fuzzer
RECURSIVE FindHelper(_, _, _)
FindHelper(t, i, cmd) ==
  IF i + 2 > Len(t) THEN <<>>
  ELSE IF /\ EndsWith(t[i], cmd)
          /\ IsPathTok(t[i + 1])
          /\ WordPrefixLen(t[i + 2][1]) >= 1
    THEN <<WordCapture(t[i + 2])>>
           \o FindHelper(t, IF WordConsumed(t[i + 2]) THEN i + 3 ELSE i + 2, cmd)
    ELSE FindHelper(t, i + 1, cmd)

\* the list with its first two patterns exchanged
fuzz_patterns_swapped == <<"cp", "link", "go", "rust">>

\* the patterns, in the order of the list fuzz_patterns
fuzz_patterns == <<"link", "cp", "go", "rust">>

\* re.findall(pattern, content)
findall(pattern, content) ==
  CASE pattern = "link" -> FindLink(content, 1)
    [] pattern = "cp"   -> FindCp(Flatten(content), 1)
    [] pattern = "go"   -> FindHelper(Flatten(content), 1, "compile_go_fuzzer")
    [] pattern = "rust" -> FindHelper(Flatten(content), 1, "compile_rust_fuzzer")

\* match.replace('$OUT/', ''): every "$OUT" that ends a segment which is
\* not the last one goes, together with the "/" after it
RECURSIVE ReplaceOut(_)
ReplaceOut(tok) ==
  IF Len(tok) <= 1 THEN tok
  ELSE IF Len(tok[1]) >= 1 /\ tok[1][Len(tok[1])] = "$OUT"
    THEN ReplaceOut(<<SubSeq(tok[1], 1, Len(tok[1]) - 1) \o tok[2]>>
                      \o Tail(Tail(tok)))
    ELSE <<tok[1]>> \o ReplaceOut(Tail(tok))

\* os.path.basename: the text after the last "/"
basename(tok) == IF tok = <<>> THEN <<>> ELSE tok[Len(tok)]

\* os.path.basename(match.replace('$OUT/', ''))
TargetOf(match) == basename(ReplaceOut(match))

InSeq(x, s) == \E i \in 1..Len(s) : s[i] = x

\* the fallback name without its suffix
FallbackName_bare(name) == name

\* f"{project_name}_fuzzer"
FallbackName(name) == name \o <<"_fuzzer">>

\* a build script as the filesystem holds it
NoScript == [exists |-> FALSE, readable |-> TRUE, content |-> <<>>]

\* open(build_script).read() succeeded
CanRead(script) == script.exists /\ script.readable

\* what open(build_script, 'r') and f.read() raise on a script that exists
\* and cannot be read: its mode forbids it, or its bytes are not text
ReadErrors == {"PermissionError", "UnicodeDecodeError"}

\* the exceptions the "with open" block can raise on the script
ReadFailures(script) ==
  IF script.exists /\ ~script.readable THEN ReadErrors ELSE {"none"}

\* a handler "except OSError": it takes the permission error only
except_OSError(exc) == exc \in {"PermissionError"}

\* the handler "except Exception as e" of both extractors
except_Exception(exc) == exc \in {"PermissionError", "UnicodeDecodeError"}

\* the exception that leaves the extractor when its try block raised exc
Escaped(exc) == IF exc = "none" \/ except_Exception(exc) THEN "none" ELSE exc

\* custom_fuzzing/api.py: "for match in matches", with the membership test
RECURSIVE AddMatches(_, _)
AddMatches(targets, matches) ==
  IF matches = <<>> THEN targets
  ELSE LET target == TargetOf(Head(matches))
       IN  AddMatches(IF target # <<>> /\ ~InSeq(target, targets)
                        THEN Append(targets, target)
                        ELSE targets,
                      Tail(matches))

\* custom_fuzzing/api.py: "for pattern in fuzz_patterns"
RECURSIVE ScanPatterns(_, _, _)
ScanPatterns(targets, patterns, content) ==
  IF patterns = <<>> THEN targets
  ELSE ScanPatterns(AddMatches(targets, findall(Head(patterns), content)),
                    Tail(patterns), content)

\* custom_fuzzing/api.py _get_fuzz_targets(project_name, project_dir); an
\* exception of open/read leaves targets empty
_get_fuzz_targets(name, script) ==
  LET targets == IF CanRead(script)
                   THEN ScanPatterns(<<>>, fuzz_patterns, script.content)
                   ELSE <<>>
  IN  IF targets = <<>> THEN <<FallbackName(name)>> ELSE targets

\* models.py FuzzTarget, with the fields the extractor sets
FuzzTarget(name, project, script) ==
  [name |-> name, project |-> project, build_script |-> script]

\* utils/client.py: "for match in matches", every match is appended
RECURSIVE AddTargets(_, _, _)
AddTargets(targets, matches, project) ==
  IF matches = <<>> THEN targets
  ELSE LET target_name == TargetOf(Head(matches))
       IN  AddTargets(IF target_name # <<>>
                        THEN Append(targets,
                                    FuzzTarget(target_name, project, "build.sh"))
                        ELSE targets,
                      Tail(matches), project)

\* utils/client.py: "for pattern in fuzz_patterns"
RECURSIVE ScanPatternsClient(_, _, _, _)
ScanPatternsClient(targets, patterns, content, project) ==
  IF patterns = <<>> THEN targets
  ELSE ScanPatternsClient(
         AddTargets(targets, findall(Head(patterns), content), project),
         Tail(patterns), content, project)

\* get_fuzz_targets without its "if not targets" branch
get_fuzz_targets_nofallback(project, script) ==
  IF CanRead(script)
    THEN ScanPatternsClient(<<>>, fuzz_patterns, script.content, project)
    ELSE <<>>

\* utils/client.py OSSFuzzClient.get_fuzz_targets(project)
get_fuzz_targets(project, script) ==
  LET targets == IF CanRead(script)
                   THEN ScanPatternsClient(<<>>, fuzz_patterns,
                                           script.content, project)
                   ELSE <<>>
  IN  IF targets = <<>>
        THEN <<FuzzTarget(FallbackName(project.name), project,
                          IF script.exists THEN "build.sh" ELSE "None")>>
        ELSE targets

-----------------------------------------------------------------------------
(* The build scripts the model writes.                                     *)

Projects == {<<"curl">>, <<"zlib">>}

SrcPath == << <<".">>, <<"src">> >>

LineSet ==
  { \* $CXX $CXXFLAGS ./src $LIB_FUZZING_ENGINE -o $OUT/alpha
    <<Tok("$CXX"), Tok("$CXXFLAGS"), SrcPath, Tok("$LIB_FUZZING_ENGINE"),
      Tok("-o"), OutTok(<<"alpha">>)>>,
    \* the same without the engine, and with -o ending the line
    <<Tok("$CXX"), Tok("$CXXFLAGS"), SrcPath, Tok("-o"), OutTok(<<"beta">>)>>,
    <<Tok("$CXX"), Tok("$CXXFLAGS"), Tok("$LIB_FUZZING_ENGINE"), Tok("-o")>>,
    \* cp beta $OUT/beta, cp src $OUT/alpha, cp ./src $OUT/beta
    <<Tok("cp"), Tok("beta"), OutTok(<<"beta">>)>>,
    <<Tok("cp"), Tok("src"), OutTok(<<"alpha">>)>>,
    <<Tok("cp"), SrcPath, OutTok(<<"beta">>)>>,
    \* compile_go_fuzzer with three, two and one arguments
    <<Tok("compile_go_fuzzer"), SrcPath, Tok("Fuzz"), Tok("beta")>>,
    <<Tok("compile_go_fuzzer"), SrcPath, Tok("alpha")>>,
    <<Tok("compile_go_fuzzer"), SrcPath>>,
    \* compile_rust_fuzzer ./src curl_fuzzer
    <<Tok("compile_rust_fuzzer"), SrcPath, << <<"curl", "_fuzzer">> >> >>,
    \* $OUT/beta alone on a line, and a comment
    <<OutTok(<<"beta">>)>>,
    <<Tok("#"), Tok("src")>> }

-----------------------------------------------------------------------------
(* The extractor and the build script it reads.                            *)

NoRet == [fn |-> "none", raised |-> "none", targets |-> <<>>]

\* the parts of the model a specification leaves out stay as they are here
ExtOff ==
  /\ project_name = <<>>
  /\ build_sh = NoScript
  /\ ext_pc = "off"
  /\ ext_ret = NoRet

ValOff ==
  /\ name_in = <<>>
  /\ val_pc = "off"
  /\ val_ret1 = [ok |-> FALSE, exc |-> "none", value |-> <<>>]
  /\ val_ret2 = [ok |-> FALSE, exc |-> "none", value |-> <<>>]

DateOff ==
  /\ clock = [kind |-> "datetime", ord |-> 0, sec |-> 0,
              aware |-> FALSE, off |-> 0]
  /\ start_in = [kind |-> "None"]
  /\ end_in = [kind |-> "None"]
  /\ date_pc = "off"
  /\ date_ret = [ok |-> FALSE, exc |-> "none", value |-> <<>>]

\* the names an entry of projects/ can have
NameList == <<"curl", "zlib", "expat", "libpng">>

ProjNames == {NameList[i] : i \in 1..NumProjects}

\* nothing at projects/<name>
NoEntry ==
  [kind |-> "absent", manifest |-> "absent", keys |-> {},
   dockerfile |-> FALSE, build_script |-> FALSE]

NoOutcome ==
  [ok |-> FALSE, exc |-> "none", text |-> "", path |-> <<>>, value |-> <<>>]

RepoOff ==
  /\ oss_fuzz_dir = "None"
  /\ projects_exists = FALSE
  /\ tree = [n \in ProjNames |-> NoEntry]
  /\ repo_pc = "off"
  /\ repo_arg = "None"
  /\ repo_ret = NoOutcome

RecOff ==
  /\ cls = "none"
  /\ ctor_args = <<>>
  /\ rec_pc = "off"
  /\ obj = <<>>

CliOff ==
  /\ environ = "None"
  /\ where = <<>>
  /\ proj = <<>>
  /\ creds = FALSE
  /\ client_dir = "None"
  /\ cached_projects = [kind |-> "None"]

CallOff ==
  /\ call_fn = "none"
  /\ call_args = <<>>
  /\ call_pc = "off"
  /\ call_ret = <<>>
  /\ fs_log = <<>>

MemOff ==
  /\ heap = <<>>
  /\ stores = <<>>

ThrOff ==
  /\ th_pc = <<>>
  /\ th_loc = <<>>
  /\ th_ret = <<>>

FzOff ==
  /\ fz_files = <<>>
  /\ fz_target = FALSE
  /\ fz_pc = "off"
  /\ fz_args = <<>>
  /\ fz_run = <<>>
  /\ fz_an = <<>>

SesOff ==
  /\ disk = {}
  /\ setup_path = <<>>

InitExtract ==
  /\ project_name \in Projects
  /\ build_sh = NoScript
  /\ ext_pc = "idle"
  /\ ext_ret = NoRet
  /\ ValOff
  /\ DateOff
  /\ RepoOff
  /\ RecOff
  /\ CliOff
  /\ CallOff
  /\ MemOff
  /\ ThrOff
  /\ FzOff
  /\ SesOff

\* the environment creates, extends, protects and removes build.sh
CreateScript ==
  /\ ext_pc = "idle"
  /\ ~build_sh.exists
  /\ build_sh' = [build_sh EXCEPT !.exists = TRUE]
  /\ UNCHANGED <<project_name, ext_pc, ext_ret>>
  /\ UNCHANGED notExt

AppendLine ==
  /\ ext_pc = "idle"
  /\ build_sh.exists
  /\ Len(build_sh.content) < MaxLines
  /\ \E line \in LineSet :
       build_sh' = [build_sh EXCEPT !.content = Append(@, line)]
  /\ UNCHANGED <<project_name, ext_pc, ext_ret>>
  /\ UNCHANGED notExt

Chmod ==
  /\ ext_pc = "idle"
  /\ build_sh.exists
  /\ build_sh' = [build_sh EXCEPT !.readable = ~@]
  /\ UNCHANGED <<project_name, ext_pc, ext_ret>>
  /\ UNCHANGED notExt

DeleteScript ==
  /\ ext_pc = "idle"
  /\ build_sh.exists
  /\ build_sh' = NoScript
  /\ UNCHANGED <<project_name, ext_pc, ext_ret>>
  /\ UNCHANGED notExt

\* a call of _get_fuzz_targets(project_name, project_dir)
CallApiGetFuzzTargets ==
  /\ ext_pc = "idle"
  /\ \E exc \in ReadFailures(build_sh) :
       ext_ret' = [fn |-> "api",
                   raised |-> Escaped(exc),
                   targets |-> IF Escaped(exc) = "none"
                                 THEN _get_fuzz_targets(project_name, build_sh)
                                 ELSE <<>>]
  /\ ext_pc' = "returned"
  /\ UNCHANGED <<project_name, build_sh>>
  /\ UNCHANGED notExt

\* a call of client.get_fuzz_targets(project)
CallClientGetFuzzTargets ==
  /\ ext_pc = "idle"
  /\ \E exc \in ReadFailures(build_sh) :
       ext_ret' = [fn |-> "client",
                   raised |-> Escaped(exc),
                   targets |-> IF Escaped(exc) = "none"
                                 THEN get_fuzz_targets([name |-> project_name],
                                                       build_sh)
                                 ELSE <<>>]
  /\ ext_pc' = "returned"
  /\ UNCHANGED <<project_name, build_sh>>
  /\ UNCHANGED notExt

\* the caller takes the list
ReturnToCaller ==
  /\ ext_pc = "returned"
  /\ ext_pc' = "idle"
  /\ ext_ret' = NoRet
  /\ UNCHANGED <<project_name, build_sh>>
  /\ UNCHANGED notExt

NextExtract ==
  \/ CreateScript
  \/ AppendLine
  \/ Chmod
  \/ DeleteScript
  \/ CallApiGetFuzzTargets
  \/ CallClientGetFuzzTargets
  \/ ReturnToCaller

SpecExtract == InitExtract /\ [][NextExtract]_vars

-----------------------------------------------------------------------------
(* Properties of target extraction.                                        *)

Range(s) == {s[i] : i \in 1..Len(s)}

\* the names of the returned list, for either extractor
RetNames ==
  IF ext_ret.fn = "client"
    THEN [i \in 1..Len(ext_ret.targets) |-> ext_ret.targets[i].name]
    ELSE ext_ret.targets

\* the script text the call could read
VisibleContent == IF CanRead(build_sh) THEN build_sh.content ELSE <<>>

\* the names pattern p yields on the script, in script-text order
CapturedBy(p) ==
  LET ms == findall(p, VisibleContent)
  IN  [i \in 1..Len(ms) |-> TargetOf(ms[i])]

PatternIds == {"link", "cp", "go", "rust"}

CapturedNames == UNION {Range(CapturedBy(p)) : p \in PatternIds}

\* C1: every call of either extractor returns a list of length >= 1,
\* whatever the state of the build script (absent, empty, unreadable,
\* matching nothing, matching any number of patterns).
C1_NonEmpty ==
  ext_pc = "returned" => Len(ext_ret.targets) >= 1

C1_Witness ==
  /\ ext_pc = "returned"
  /\ ext_ret.fn = "client"
  /\ build_sh.exists
  /\ ~build_sh.readable
  /\ Len(build_sh.content) >= 1
  /\ Len(ext_ret.targets) = 1

\* C2 as claimed: with no captured name the result is exactly
\* [<P>_fuzzer], and the fallback name is never in the result when a
\* pattern matched.
C2_FallbackNeverWithMatch ==
  ext_pc = "returned" =>
    /\ (CapturedNames = {} => RetNames = <<project_name \o <<"_fuzzer">>>>)
    /\ (CapturedNames # {} =>
          project_name \o <<"_fuzzer">> \notin Range(RetNames))

\* C2 amended: with no captured name the result is exactly [<P>_fuzzer];
\* when a pattern matched, the result holds only names the patterns
\* captured (so <P>_fuzzer is in it only if the script declares it).
C2_FallbackExact ==
  ext_pc = "returned" =>
    /\ (CapturedNames = {} => RetNames = <<project_name \o <<"_fuzzer">>>>)
    /\ (CapturedNames # {} => Range(RetNames) = CapturedNames)

C2_Witness ==
  /\ ext_pc = "returned"
  /\ CanRead(build_sh)
  /\ Len(build_sh.content) >= 2
  /\ CapturedNames = {}
  /\ RetNames = <<project_name \o <<"_fuzzer">>>>

\* C3: the returned list never holds the same name twice.
C3_NoDuplicates ==
  ext_pc = "returned" =>
    \A i, j \in 1..Len(RetNames) : RetNames[i] = RetNames[j] => i = j

\* the claim's order of the patterns: compile+link, copy, go, rust
Precedence == <<"link", "cp", "go", "rust">>

\* the first pattern, in that order, that yields name n
FirstPattern(n) ==
  CHOOSE p \in 1..4 :
    /\ n \in Range(CapturedBy(Precedence[p]))
    /\ \A q \in 1..(p - 1) : n \notin Range(CapturedBy(Precedence[q]))

\* the first position of x in s
FirstIndex(x, s) ==
  CHOOSE i \in 1..Len(s) : s[i] = x /\ \A j \in 1..(i - 1) : s[j] # x

\* C4: a name first yielded by an earlier pattern comes (first) before
\* every name first yielded by a later pattern, wherever the lines are in
\* the script, and names first yielded by one pattern come in script-text
\* order.
C4_PatternPrecedence ==
  (ext_pc = "returned" /\ CapturedNames # {}) =>
    \A a, b \in Range(RetNames) :
      LET pa == FirstPattern(a)
          pb == FirstPattern(b)
          before == FirstIndex(a, RetNames) < FirstIndex(b, RetNames)
      IN  /\ pa < pb => before
          /\ (pa = pb /\ FirstIndex(a, CapturedBy(Precedence[pa]))
                           < FirstIndex(b, CapturedBy(Precedence[pa])))
               => before

\* a copy line above a compile+link line: the link name still comes first
C4_Witness ==
  /\ ext_pc = "returned"
  /\ CanRead(build_sh)
  /\ Len(build_sh.content) = 2
  /\ findall("cp", <<build_sh.content[1]>>) = <<OutTok(<<"beta">>)>>
  /\ findall("link", <<build_sh.content[2]>>) = <<OutTok(<<"alpha">>)>>
  /\ RetNames = << <<"alpha">>, <<"beta">> >>

\* the list the same call returns when there is no build.sh
WithoutScript ==
  IF ext_ret.fn = "client"
    THEN get_fuzz_targets([name |-> project_name], NoScript)
    ELSE _get_fuzz_targets(project_name, NoScript)

NamesOf(targets) ==
  IF ext_ret.fn = "client"
    THEN [i \in 1..Len(targets) |-> targets[i].name]
    ELSE targets

Unreadable == build_sh.exists /\ ~build_sh.readable

\* C21 as claimed: no call of either extractor raises, whatever the build
\* script is (missing, unreadable, undecodable, any content), and on an
\* unreadable script the call returns what it returns without a script.
C21_NeverRaisesSameResult ==
  ext_pc = "returned" =>
    /\ ext_ret.raised = "none"
    /\ (Unreadable => ext_ret.targets = WithoutScript)

\* C21 amended: no call of either extractor raises, and on an unreadable
\* script the call returns the target names it returns without a script.
C21_NeverRaisesSameNames ==
  ext_pc = "returned" =>
    /\ ext_ret.raised = "none"
    /\ (Unreadable => RetNames = NamesOf(WithoutScript))

\* the client's extractor has returned on a script that has a line and
\* cannot be read
C21_Witness ==
  /\ ext_pc = "returned"
  /\ ext_ret.fn = "client"
  /\ Unreadable
  /\ Len(build_sh.content) >= 1
  /\ ext_ret.raised = "none"
  /\ RetNames = <<project_name \o <<"_fuzzer">>>>

\* the helper a line invokes, if it invokes one
HelperOf(line) ==
  IF line = <<>> THEN "none"
  ELSE IF line[1] = Tok("compile_go_fuzzer") THEN "go"
  ELSE IF line[1] = Tok("compile_rust_fuzzer") THEN "rust"
  ELSE "none"

\* C22: for every compile_go_fuzzer or compile_rust_fuzzer invocation of
\* the script, whatever its number of arguments, the name extracted from
\* the invocation is its final argument.
C22_HelperFinalArgument ==
  (ext_pc = "returned" /\ CanRead(build_sh)) =>
    \A k \in 1..Len(build_sh.content) :
      LET line == build_sh.content[k]
      IN  HelperOf(line) # "none" =>
            \A match \in Range(findall(HelperOf(line), <<line>>)) :
              /\ match = line[Len(line)]
              /\ TargetOf(match) \in Range(RetNames)

-----------------------------------------------------------------------------
(* utils/common.py validate_project_name.  A name is a sequence of         *)
(* characters; one character stands for each class the function tells      *)
(* apart.                                                                  *)

\* a lowercase letter, an uppercase letter, a digit, "_", "-", a blank, a
\* line break and a character outside every class
Chars == {"a", "A", "0", "_", "-", " ", "\n", "!"}

\* the characters str.strip() removes
Whitespace == {" ", "\n"}

\* str.lower() on one character, and a variant that swaps the case
ToLower_swapcase(c) == IF c = "A" THEN "a" ELSE IF c = "a" THEN "A" ELSE c

ToLower(c) == IF c = "A" THEN "a" ELSE c

\* str.lower()
lower(s) == [i \in 1..Len(s) |-> ToLower(s[i])]

RECURSIVE lstrip(_)
lstrip(s) ==
  IF s # <<>> /\ Head(s) \in Whitespace THEN lstrip(Tail(s)) ELSE s

RECURSIVE rstrip(_)
rstrip(s) ==
  IF s # <<>> /\ s[Len(s)] \in Whitespace
    THEN rstrip(SubSeq(s, 1, Len(s) - 1))
    ELSE s

\* str.strip() that forgets the right end
strip_left_only(s) == lstrip(s)

\* str.strip()
strip(s) == rstrip(lstrip(s))

\* re.match(r'^[a-z0-9_-]+$', s): "$" also matches before a final line
\* break
MatchesNameRegex(s) ==
  LET body == IF s # <<>> /\ s[Len(s)] = "\n"
                THEN {s, SubSeq(s, 1, Len(s) - 1)}
                ELSE {s}
  IN  \E b \in body :
        /\ b # <<>>
        /\ \A i \in 1..Len(b) : b[i] \in {"a", "0", "_", "-"}

Raised(exc) == [ok |-> FALSE, exc |-> exc, value |-> <<>>]

Returned(v) == [ok |-> TRUE, exc |-> "none", value |-> v]

validate_project_name(name) ==
  IF name = <<>> THEN Raised("ValueError")
  ELSE LET normal == lower(strip(name))
       IN  IF ~MatchesNameRegex(normal)
             THEN Raised("ValueError")
             ELSE Returned(normal)

RECURSIVE SeqsUpTo(_, _)
SeqsUpTo(S, n) ==
  IF n = 0 THEN {<<>>}
  ELSE LET shorter == SeqsUpTo(S, n - 1)
       IN  shorter \cup {Append(s, c) : s \in shorter, c \in S}

InitValidate ==
  /\ name_in \in SeqsUpTo(Chars, MaxNameLen)
  /\ val_pc = "start"
  /\ val_ret1 = Raised("none")
  /\ val_ret2 = Raised("none")
  /\ ExtOff
  /\ DateOff
  /\ RepoOff
  /\ RecOff
  /\ CliOff
  /\ CallOff
  /\ MemOff
  /\ ThrOff
  /\ FzOff
  /\ SesOff

\* validate_project_name(x)
CallValidate ==
  /\ val_pc = "start"
  /\ val_ret1' = validate_project_name(name_in)
  /\ val_pc' = "once"
  /\ UNCHANGED <<name_in, val_ret2>>
  /\ UNCHANGED notVal

\* validate_project_name applied to the name the first call returned
CallValidateAgain ==
  /\ val_pc = "once"
  /\ val_ret1.ok
  /\ val_ret2' = validate_project_name(val_ret1.value)
  /\ val_pc' = "twice"
  /\ UNCHANGED <<name_in, val_ret1>>
  /\ UNCHANGED notVal

NextValidate ==
  \/ CallValidate
  \/ CallValidateAgain

SpecValidate == InitValidate /\ [][NextValidate]_vars

\* C5: validate_project_name is idempotent: applied to a name it
\* returned, it succeeds and returns that name again.
C5_Idempotent ==
  val_pc = "twice" => (val_ret2.ok /\ val_ret2.value = val_ret1.value)

\* the second call ran on the result of a call that changed its argument
C5_Witness ==
  /\ val_pc = "twice"
  /\ val_ret1.value # name_in
  /\ Len(val_ret1.value) >= 2
  /\ val_ret2.ok

\* t is s without its leading and trailing whitespace
IsTrimOf(t, s) ==
  \E i \in 1..(Len(s) + 1) : \E j \in 0..Len(s) :
    /\ t = SubSeq(s, i, j)
    /\ \A k \in 1..(i - 1) : s[k] \in Whitespace
    /\ \A k \in (j + 1)..Len(s) : s[k] \in Whitespace
    /\ t # <<>> => (t[1] \notin Whitespace /\ t[Len(t)] \notin Whitespace)

\* s with its uppercase letters made lowercase
LowerOf(s) == [k \in 1..Len(s) |-> IF s[k] = "A" THEN "a" ELSE s[k]]

\* the pieces of s
Pieces(s) == {SubSeq(s, i, j) : i \in 1..(Len(s) + 1), j \in 0..Len(s)}

\* C6: validate_project_name raises ValueError exactly when the input is
\* empty or its trimmed, lowercased form is empty or has a character
\* outside [a-z0-9_-]; otherwise it returns the trimmed, lowercased name.
C6_RejectsExactly ==
  val_pc # "start" /\ val_pc # "off" =>
    \E u \in Pieces(name_in) :
      /\ IsTrimOf(u, name_in)
      /\ LET t == LowerOf(u)
             bad == \/ name_in = <<>>
                    \/ t = <<>>
                    \/ \E k \in 1..Len(t) : t[k] \notin {"a", "0", "_", "-"}
         IN  /\ bad <=> (~val_ret1.ok /\ val_ret1.exc = "ValueError")
             /\ ~bad => (val_ret1.ok /\ val_ret1.value = t)

\* a name with an uppercase letter and blanks around it was accepted
C6_Witness ==
  /\ val_pc = "once"
  /\ Len(name_in) = 3
  /\ name_in[1] = " "
  /\ name_in[2] = "A"
  /\ name_in[3] \in Whitespace
  /\ val_ret1.ok
  /\ val_ret1.value = <<"a">>

-----------------------------------------------------------------------------
(* utils/common.py validate_date_range.  A datetime is a day number (day   *)
(* 0 is 2022-01-01), a second of the day and a UTC offset in hours (aware   *)
(* is FALSE for a naive datetime); an ISO string is its year, month and    *)
(* day fields, its time of day (-1: the string has no time part) and its   *)
(* "+HH:00" suffix (aware is FALSE when it has none).                      *)

\* timedelta(days=30)
DefaultDays == 30

IsLeap(y) == (y % 4 = 0 /\ y % 100 # 0) \/ y % 400 = 0

YearLen(y) == IF IsLeap(y) THEN 366 ELSE 365

DaysInMonth(y, m) ==
  CASE m \in {1, 3, 5, 7, 8, 10, 12} -> 31
    [] m \in {4, 6, 9, 11} -> 30
    [] m = 2 -> IF IsLeap(y) THEN 29 ELSE 28

RECURSIVE DaysBeforeMonth(_, _)
DaysBeforeMonth(y, m) ==
  IF m = 1 THEN 0 ELSE DaysBeforeMonth(y, m - 1) + DaysInMonth(y, m - 1)

RECURSIVE DaysBeforeYear(_)
DaysBeforeYear(y) ==
  IF y <= 2022 THEN 0 ELSE DaysBeforeYear(y - 1) + YearLen(y - 1)

\* the day number of a calendar date
toordinal(y, m, d) == DaysBeforeYear(y) + DaysBeforeMonth(y, m) + d - 1

RECURSIVE YearOfDay(_, _)
YearOfDay(n, y) ==
  IF n < YearLen(y) THEN <<y, n>> ELSE YearOfDay(n - YearLen(y), y + 1)

RECURSIVE MonthOfDay(_, _, _)
MonthOfDay(y, n, m) ==
  IF n < DaysInMonth(y, m) THEN <<m, n + 1>>
  ELSE MonthOfDay(y, n - DaysInMonth(y, m), m + 1)

\* the calendar date of a day number
fromordinal(n) ==
  LET yr == YearOfDay(n, 2022)
      md == MonthOfDay(yr[1], yr[2], 1)
  IN  [y |-> yr[1], m |-> md[1], d |-> md[2]]

None == [kind |-> "None"]

EmptyStr == [kind |-> "empty"]

IsoStr(y, m, d, sec, aware, off) ==
  [kind |-> "str", y |-> y, m |-> m, d |-> d, sec |-> sec,
   aware |-> aware, off |-> off]

\* a "YYYY-MM-DD" string
DateOnly(y, m, d) == IsoStr(y, m, d, -1, FALSE, 0)

Datetime(ord, sec, aware, off) ==
  [kind |-> "datetime", ord |-> ord, sec |-> sec, aware |-> aware, off |-> off]

\* a datetime without tzinfo, as datetime.now() returns
Naive(ord, sec) == Datetime(ord, sec, FALSE, 0)

\* "not x" for an argument: None and "" are false
Falsy(x) == x.kind \in {"None", "empty"}

\* datetime.fromisoformat accepts the string
ValidIso(x) ==
  /\ x.m \in 1..12
  /\ x.d >= 1
  /\ x.d <= DaysInMonth(x.y, x.m)

\* datetime.fromisoformat(x), for a string it accepts
fromisoformat(x) ==
  Datetime(toordinal(x.y, x.m, x.d), IF x.sec = -1 THEN 0 ELSE x.sec,
           x.aware, x.off)

\* dt - timedelta(days=n)
MinusDays(dt, n) == [dt EXCEPT !.ord = @ - n]

\* the default start, one day short
DefaultStart_short(end) == MinusDays(end, DefaultDays - 1)

\* end - datetime.timedelta(days=30)
DefaultStart(end) == MinusDays(end, DefaultDays)

\* the instant of a datetime in seconds, its UTC offset taken off
Instant(dt) == dt.ord * 86400 + dt.sec - dt.off * 3600

\* datetime ordering is defined between two naive or two aware values
Comparable(s, e) == s.aware = e.aware

\* start_date > end_date, on comparable datetime objects
StartAfterEnd(s, e) == Instant(s) > Instant(e)

\* dt.isoformat().split('T')[0]: the date of the local fields
isodate(dt) ==
  LET c == fromordinal(dt.ord) IN DateOnly(c.y, c.m, c.d)

validate_date_range(start_date, end_date, now) ==
  LET both == Falsy(start_date) /\ Falsy(end_date)
      \* "if not start_date and not end_date"
      e1 == IF both THEN now ELSE end_date
      s1 == IF both THEN DefaultStart(now) ELSE start_date
      \* "if not start_date and end_date"
      onlyEnd == Falsy(s1) /\ ~Falsy(e1)
      endObjRaises == onlyEnd /\ e1.kind = "str" /\ ~ValidIso(e1)
      s2 == IF onlyEnd
              THEN DefaultStart(IF e1.kind = "str" THEN fromisoformat(e1)
                                                  ELSE e1)
              ELSE s1
      \* "if start_date and not end_date"
      e3 == IF ~Falsy(s2) /\ Falsy(e1) THEN now ELSE e1
      \* "if isinstance(start_date, str)", "if isinstance(end_date, str)"
      startRaises == s2.kind = "str" /\ ~ValidIso(s2)
      s4 == IF s2.kind = "str" THEN fromisoformat(s2) ELSE s2
      endRaises == e3.kind = "str" /\ ~ValidIso(e3)
      e5 == IF e3.kind = "str" THEN fromisoformat(e3) ELSE e3
  IN  IF endObjRaises \/ startRaises \/ endRaises THEN Raised("ValueError")
      ELSE IF ~Comparable(s4, e5) THEN Raised("TypeError")
      ELSE IF StartAfterEnd(s4, e5) THEN Raised("ValueError")
      ELSE Returned([start_date |-> isodate(s4), end_date |-> isodate(e5)])

\* the arguments the model passes: absent, empty, ISO strings without a
\* time part, with one, and with a UTC offset after it (some of them no
\* calendar date), datetime objects
DateInputs ==
  {None, EmptyStr}
    \cup {DateOnly(y, m, d) : y \in {2023, 2024}, m \in {1, 2, 13},
                              d \in {1, 29, 31}}
    \cup {IsoStr(y, m, d, sec, FALSE, 0) :
             y \in {2023, 2024}, m \in {1, 2, 13}, d \in {1, 29, 31},
             sec \in {3600, 79200}}
    \cup {IsoStr(y, m, d, sec, TRUE, off) :
             y \in {2023, 2024}, m \in {1, 2, 13}, d \in {1, 29, 31},
             sec \in {3600, 79200}, off \in {0, 5}}
    \cup {Naive(toordinal(2023, 1, 31), 0),
          Naive(toordinal(2023, 2, 1), 43200),
          Naive(toordinal(2024, 3, 1), 0)}

Clocks ==
  {Naive(toordinal(2023, 2, 1), 43200), Naive(toordinal(2024, 3, 30), 0)}

InitDate ==
  /\ clock \in Clocks
  /\ start_in \in DateInputs
  /\ end_in \in DateInputs
  /\ date_pc = "start"
  /\ date_ret = Raised("none")
  /\ ExtOff
  /\ ValOff
  /\ RepoOff
  /\ RecOff
  /\ CliOff
  /\ CallOff
  /\ MemOff
  /\ ThrOff
  /\ FzOff
  /\ SesOff

\* validate_date_range(start_date, end_date)
CallValidateDateRange ==
  /\ date_pc = "start"
  /\ date_ret' = validate_date_range(start_in, end_in, clock)
  /\ date_pc' = "returned"
  /\ UNCHANGED <<clock, start_in, end_in>>
  /\ UNCHANGED notDate

NextDate == CallValidateDateRange

SpecDate == InitDate /\ [][NextDate]_vars

\* the day number an argument names, and its instant in seconds
DayOf(x) == IF x.kind = "datetime" THEN x.ord ELSE toordinal(x.y, x.m, x.d)

InstantOf(x) ==
  DayOf(x) * 86400 + (IF x.sec = -1 THEN 0 ELSE x.sec) - x.off * 3600

\* a is later than b: by their instants when both carry an offset or
\* neither does, and otherwise by more than the day a wall clock's unknown
\* offset can account for
Later(a, b) ==
  IF a.aware = b.aware THEN InstantOf(a) > InstantOf(b)
  ELSE InstantOf(a) > InstantOf(b) + 86400

\* the argument is a datetime or a string that names a calendar date
Usable(x) == x.kind = "datetime" \/ (x.kind = "str" /\ ValidIso(x))

\* the date string of a day number
DateStr(n) ==
  LET c == fromordinal(n) IN DateOnly(c.y, c.m, c.d)

\* C7: both bounds absent give (today - 30 days, today); only an end gives
\* start = end - 30 days (end 2023-01-31 gives start 2023-01-01); only a
\* start gives end = now; the values returned are date strings without a
\* time part.
C7_Defaults ==
  date_pc = "returned" =>
    LET sAbsent == Falsy(start_in)
        eAbsent == Falsy(end_in)
        v == date_ret.value
    IN  /\ (sAbsent /\ eAbsent) =>
              /\ date_ret.ok
              /\ v.start_date = DateStr(clock.ord - 30)
              /\ v.end_date = DateStr(clock.ord)
        /\ (sAbsent /\ ~eAbsent /\ Usable(end_in)) =>
              /\ date_ret.ok
              /\ v.start_date = DateStr(DayOf(end_in) - 30)
              /\ v.end_date = DateStr(DayOf(end_in))
        /\ (sAbsent /\ end_in = DateOnly(2023, 1, 31)) =>
              /\ v.start_date = DateOnly(2023, 1, 1)
              /\ v.end_date = DateOnly(2023, 1, 31)
        /\ (~sAbsent /\ eAbsent /\ date_ret.ok) =>
              v.end_date = DateStr(clock.ord)
        /\ date_ret.ok =>
              /\ v.start_date.kind = "str" /\ v.start_date.sec = -1
              /\ v.end_date.kind = "str" /\ v.end_date.sec = -1

\* the call with only the end "2023-01-31" has returned
C7_Witness ==
  /\ date_pc = "returned"
  /\ start_in = None
  /\ end_in = DateOnly(2023, 1, 31)
  /\ date_ret.ok
  /\ date_ret.value.start_date = DateOnly(2023, 1, 1)

\* date string a is not after date string b
DateLeq(a, b) ==
  \/ a.y < b.y
  \/ (a.y = b.y /\ a.m < b.m)
  \/ (a.y = b.y /\ a.m = b.m /\ a.d <= b.d)

\* C8: a start later than the end (the end given, or now when it is
\* absent) raises ValueError, and a returned start_date is never after the
\* returned end_date.
C8_StartAfterEndRejected ==
  date_pc = "returned" =>
    /\ (Usable(start_in) /\ Usable(end_in) /\ Later(start_in, end_in)) =>
         (~date_ret.ok /\ date_ret.exc = "ValueError")
    /\ (Usable(start_in) /\ Falsy(end_in) /\ Later(start_in, clock)) =>
         (~date_ret.ok /\ date_ret.exc = "ValueError")
    /\ date_ret.ok =>
         DateLeq(date_ret.value.start_date, date_ret.value.end_date)

-----------------------------------------------------------------------------
(* utils/client.py: OSSFuzzClient.get_project_details_from_repo and        *)
(* get_projects_from_repo.  The file tree under <oss_fuzz_dir>/projects is *)
(* `tree`: for each name what is there ("absent", a "dir" or a plain       *)
(* "file") and, for a directory, its project.yaml, Dockerfile and          *)
(* build.sh.  A path is the sequence of its components.                    *)

\* the value of OSS_FUZZ_DIR
Root == "/oss-fuzz"

\* project.yaml of a project directory: absent; a YAML mapping, which
\* holds the keys in the entry's `keys`; an empty document; text that is
\* not YAML; a file open() may not read
ManifestKinds == {"absent", "mapping", "empty", "malformed", "unreadable"}

FullConfig ==
  [language |-> "c++", main_repo |-> "https://example.org/repo.git",
   sanitizers |-> <<"address">>, fuzzing_engines |-> <<"libfuzzer">>,
   architectures |-> <<"x86_64">>, auto_ccs |-> <<"dev@example.org">>]

\* the keys the reader looks up
ManifestKeys == DOMAIN FullConfig

\* the mapping yaml.safe_load returns for a manifest that holds one
Config(entry) == [k \in entry.keys |-> FullConfig[k]]

\* config.get(key, default)
Get(config, key, default) ==
  IF key \in DOMAIN config THEN config[key] ELSE default

Fail(exc, text, path) ==
  [ok |-> FALSE, exc |-> exc, text |-> text, path |-> path, value |-> <<>>]

Ok(value) ==
  [ok |-> TRUE, exc |-> "none", text |-> "", path |-> <<>>, value |-> value]

OSSFuzzProject(name, path, config, entry) ==
  [name |-> name,
   path |-> path,
   language |-> Get(config, "language", "unknown"),
   main_repo |-> Get(config, "main_repo", ""),
   sanitizers |-> Get(config, "sanitizers", <<>>),
   fuzzing_engines |-> Get(config, "fuzzing_engines", <<>>),
   architectures |-> Get(config, "architectures", <<>>),
   maintainers |-> Get(config, "auto_ccs", <<>>),
   has_dockerfile |-> entry.dockerfile,
   has_build_script |-> entry.build_script,
   config |-> config]

\* the single-project read that goes straight to the manifest
get_project_details_from_repo_nodircheck(root, pexists, tr, name) ==
  LET project_dir == <<root, "projects", name>>
      project_yaml == project_dir \o <<"project.yaml">>
      entry == tr[name]
  IN  IF root = "None"
        THEN Fail("FileNotFoundError", "OSS-Fuzz repository not found", <<>>)
      ELSE IF ~pexists \/ entry.kind # "dir" \/ entry.manifest = "absent"
        THEN Fail("FileNotFoundError", "Project config not found: ",
                  project_yaml)
      ELSE IF entry.manifest = "unreadable"
        THEN Fail("PermissionError", "Permission denied: ", project_yaml)
      ELSE IF entry.manifest = "malformed"
        THEN Fail("YAMLError", "", <<>>)
      ELSE IF entry.manifest = "empty"
        THEN Fail("AttributeError", "object has no attribute 'get'", <<>>)
      ELSE Ok(<<OSSFuzzProject(name, project_dir, Config(entry), entry)>>)

get_project_details_from_repo(root, pexists, tr, name) ==
  LET project_dir == <<root, "projects", name>>
      project_yaml == project_dir \o <<"project.yaml">>
      entry == tr[name]
  IN  IF root = "None"
        THEN Fail("FileNotFoundError", "OSS-Fuzz repository not found", <<>>)
      \* "if not project_dir.exists()"
      ELSE IF ~pexists \/ entry.kind = "absent"
        THEN Fail("FileNotFoundError", "Project directory not found: ",
                  project_dir)
      \* "if not project_yaml.exists()": also when project_dir is a file
      ELSE IF entry.kind = "file" \/ entry.manifest = "absent"
        THEN Fail("FileNotFoundError", "Project config not found: ",
                  project_yaml)
      \* open(project_yaml)
      ELSE IF entry.manifest = "unreadable"
        THEN Fail("PermissionError", "Permission denied: ", project_yaml)
      \* yaml.safe_load(f)
      ELSE IF entry.manifest = "malformed"
        THEN Fail("YAMLError", "", <<>>)
      \* config.get(...) on the None that safe_load returns for an empty
      \* document
      ELSE IF entry.manifest = "empty"
        THEN Fail("AttributeError", "object has no attribute 'get'", <<>>)
      ELSE Ok(<<OSSFuzzProject(name, project_dir, Config(entry), entry)>>)

\* "except Exception": every exception the single-project read raises
Caught ==
  {"FileNotFoundError", "PermissionError", "YAMLError", "AttributeError"}

\* the loop over projects_dir.iterdir(), from its i-th entry on
RECURSIVE ListLoop(_, _, _, _, _)
ListLoop(root, tr, order, i, projects) ==
  IF i > Len(order) THEN Ok(projects)
  ELSE IF tr[order[i]].kind # "dir"
    THEN ListLoop(root, tr, order, i + 1, projects)
  ELSE LET r == get_project_details_from_repo(root, TRUE, tr, order[i])
       IN  IF r.ok
             THEN ListLoop(root, tr, order, i + 1, projects \o r.value)
           ELSE IF r.exc \in Caught
             THEN ListLoop(root, tr, order, i + 1, projects)
           ELSE r

\* order: the entries of projects/ in the order iterdir() yields them
get_projects_from_repo(root, pexists, tr, order) ==
  IF root = "None"
    THEN Fail("FileNotFoundError", "OSS-Fuzz repository not found", <<>>)
  ELSE IF ~pexists
    THEN Fail("FileNotFoundError", "Projects directory not found: ",
              <<root, "projects">>)
  ELSE ListLoop(root, tr, order, 1, <<>>)

\* the names present under projects/
Entries(tr) == {n \in ProjNames : tr[n].kind # "absent"}

\* the orders in which a directory listing can yield the set S
Orders(S) ==
  {o \in [1..Cardinality(S) -> S] : \A i, j \in DOMAIN o : o[i] = o[j] => i = j}

InitRepo ==
  /\ oss_fuzz_dir \in {"None", Root}
  /\ projects_exists = FALSE
  /\ tree = [n \in ProjNames |-> NoEntry]
  /\ repo_pc = "idle"
  /\ repo_arg = "None"
  /\ repo_ret = NoOutcome
  /\ ExtOff
  /\ ValOff
  /\ DateOff
  /\ RecOff
  /\ CliOff
  /\ CallOff
  /\ MemOff
  /\ ThrOff
  /\ FzOff
  /\ SesOff

\* the environment makes and removes the projects directory and what is
\* under it, between two calls of the client
MkProjects ==
  /\ repo_pc = "idle"
  /\ ~projects_exists
  /\ projects_exists' = TRUE
  /\ UNCHANGED <<oss_fuzz_dir, tree, repo_pc, repo_arg, repo_ret>>
  /\ UNCHANGED notRepo

RmProjects ==
  /\ repo_pc = "idle"
  /\ projects_exists
  /\ projects_exists' = FALSE
  /\ tree' = [n \in ProjNames |-> NoEntry]
  /\ UNCHANGED <<oss_fuzz_dir, repo_pc, repo_arg, repo_ret>>
  /\ UNCHANGED notRepo

MkEntry(n, kind) ==
  /\ repo_pc = "idle"
  /\ projects_exists
  /\ tree[n].kind = "absent"
  /\ tree' = [tree EXCEPT ![n].kind = kind]
  /\ UNCHANGED <<oss_fuzz_dir, projects_exists, repo_pc, repo_arg, repo_ret>>
  /\ UNCHANGED notRepo

RmEntry(n) ==
  /\ repo_pc = "idle"
  /\ tree[n].kind # "absent"
  /\ tree' = [tree EXCEPT ![n] = NoEntry]
  /\ UNCHANGED <<oss_fuzz_dir, projects_exists, repo_pc, repo_arg, repo_ret>>
  /\ UNCHANGED notRepo

\* project.yaml is written, replaced or removed
SetManifest(n, m, keys) ==
  /\ repo_pc = "idle"
  /\ tree[n].kind = "dir"
  /\ tree[n].manifest # m \/ tree[n].keys # keys
  /\ m # "mapping" => keys = {}
  /\ tree' = [tree EXCEPT ![n].manifest = m, ![n].keys = keys]
  /\ UNCHANGED <<oss_fuzz_dir, projects_exists, repo_pc, repo_arg, repo_ret>>
  /\ UNCHANGED notRepo

AddDockerfile(n) ==
  /\ repo_pc = "idle"
  /\ tree[n].kind = "dir"
  /\ ~tree[n].dockerfile
  /\ tree' = [tree EXCEPT ![n].dockerfile = TRUE]
  /\ UNCHANGED <<oss_fuzz_dir, projects_exists, repo_pc, repo_arg, repo_ret>>
  /\ UNCHANGED notRepo

AddBuildScript(n) ==
  /\ repo_pc = "idle"
  /\ tree[n].kind = "dir"
  /\ ~tree[n].build_script
  /\ tree' = [tree EXCEPT ![n].build_script = TRUE]
  /\ UNCHANGED <<oss_fuzz_dir, projects_exists, repo_pc, repo_arg, repo_ret>>
  /\ UNCHANGED notRepo

\* client.get_project_details_from_repo(n)
CallGetProjectDetailsFromRepo(n) ==
  /\ repo_pc = "idle"
  /\ repo_ret' =
       get_project_details_from_repo(oss_fuzz_dir, projects_exists, tree, n)
  /\ repo_arg' = n
  /\ repo_pc' = "details"
  /\ UNCHANGED <<oss_fuzz_dir, projects_exists, tree>>
  /\ UNCHANGED notRepo

\* client.get_projects_from_repo()
CallGetProjectsFromRepo ==
  /\ repo_pc = "idle"
  /\ \E order \in Orders(Entries(tree)) :
       repo_ret' =
         get_projects_from_repo(oss_fuzz_dir, projects_exists, tree, order)
  /\ repo_arg' = "None"
  /\ repo_pc' = "list"
  /\ UNCHANGED <<oss_fuzz_dir, projects_exists, tree>>
  /\ UNCHANGED notRepo

\* the caller takes the outcome
RepoReturn ==
  /\ repo_pc \in {"details", "list"}
  /\ repo_pc' = "idle"
  /\ repo_arg' = "None"
  /\ repo_ret' = NoOutcome
  /\ UNCHANGED <<oss_fuzz_dir, projects_exists, tree>>
  /\ UNCHANGED notRepo

\* the sets of keys of the manifests written
WrittenKeys == {{}, {"language", "sanitizers"}, ManifestKeys}

NextRepo ==
  \/ MkProjects
  \/ RmProjects
  \/ \E n \in ProjNames, kind \in {"dir", "file"} : MkEntry(n, kind)
  \/ \E n \in ProjNames : RmEntry(n)
  \/ \E n \in ProjNames, m \in ManifestKinds, keys \in WrittenKeys :
       SetManifest(n, m, keys)
  \/ \E n \in ProjNames : AddDockerfile(n)
  \/ \E n \in ProjNames : AddBuildScript(n)
  \/ \E n \in ProjNames : CallGetProjectDetailsFromRepo(n)
  \/ CallGetProjectsFromRepo
  \/ RepoReturn

SpecRepo == InitRepo /\ [][NextRepo]_vars

\* something exists at projects/<n>, and at projects/<n>/project.yaml
DirPresent(n) == projects_exists /\ tree[n].kind # "absent"

ManifestPresent(n) ==
  projects_exists /\ tree[n].kind = "dir" /\ tree[n].manifest # "absent"

DirPath(n) == <<oss_fuzz_dir, "projects", n>>

ManifestPath(n) == <<oss_fuzz_dir, "projects", n, "project.yaml">>

\* the single-project read of a client that has a repository has returned
DetailsDone == repo_pc = "details" /\ oss_fuzz_dir # "None"

\* C9 as stated: reading a name whose projects/<name>/project.yaml does not
\* exist, the directory missing or only the manifest, fails with
\* FileNotFoundError and the message names that project.yaml path.
C9_NamesManifestPath ==
  (DetailsDone /\ ~ManifestPresent(repo_arg)) =>
    /\ ~repo_ret.ok
    /\ repo_ret.exc = "FileNotFoundError"
    /\ repo_ret.path = ManifestPath(repo_arg)

\* C9 amended: the read fails with FileNotFoundError and the message names
\* the path that is missing: projects/<name> when nothing exists there,
\* projects/<name>/project.yaml otherwise.
C9_NamesMissingPath ==
  (DetailsDone /\ ~ManifestPresent(repo_arg)) =>
    /\ ~repo_ret.ok
    /\ repo_ret.exc = "FileNotFoundError"
    /\ repo_ret.path = IF DirPresent(repo_arg) THEN ManifestPath(repo_arg)
                                              ELSE DirPath(repo_arg)

\* the read of a name with no directory has failed, naming the directory
C9_Witness ==
  /\ DetailsDone
  /\ projects_exists
  /\ ~DirPresent(repo_arg)
  /\ repo_ret.exc = "FileNotFoundError"
  /\ repo_ret.path = DirPath(repo_arg)
  /\ \E n \in ProjNames : ManifestPresent(n)

\* the project subdirectories, and those whose manifest is missing,
\* unreadable or malformed (not YAML)
SubDirs == {n \in ProjNames : tree[n].kind = "dir"}

BadManifest ==
  {n \in SubDirs : tree[n].manifest \in {"absent", "unreadable", "malformed"}}

\* C10: with n project subdirectories of which k have a missing, unreadable
\* or malformed manifest, get_projects_from_repo does not raise and returns
\* exactly the n - k records of the other subdirectories.
C10_PartialFailure ==
  (repo_pc = "list" /\ oss_fuzz_dir # "None" /\ projects_exists) =>
    /\ repo_ret.ok
    /\ Len(repo_ret.value) = Cardinality(SubDirs) - Cardinality(BadManifest)
    /\ {repo_ret.value[i].name : i \in 1..Len(repo_ret.value)}
         = SubDirs \ BadManifest
    /\ \A i \in 1..Len(repo_ret.value) :
         /\ repo_ret.value[i].path = DirPath(repo_ret.value[i].name)
         /\ repo_ret.value[i].config = Config(tree[repo_ret.value[i].name])

\* C12: every manifest key is optional: the read of a project whose
\* manifest has any of its keys absent, or no key at all, returns a record
\* with language "unknown" when that key is absent and with empty
\* sanitizers, fuzzing_engines, architectures and maintainers when theirs
\* are.
C12_KeysOptional ==
  (DetailsDone /\ ManifestPresent(repo_arg)
     /\ tree[repo_arg].manifest \in {"mapping", "empty"}) =>
    /\ repo_ret.ok
    /\ LET keys == tree[repo_arg].keys
           p == repo_ret.value[1]
       IN  /\ "language" \notin keys => p.language = "unknown"
           /\ "language" \in keys => p.language = FullConfig.language
           /\ "sanitizers" \notin keys => p.sanitizers = <<>>
           /\ "fuzzing_engines" \notin keys => p.fuzzing_engines = <<>>
           /\ "architectures" \notin keys => p.architectures = <<>>
           /\ "auto_ccs" \notin keys => p.maintainers = <<>>

-----------------------------------------------------------------------------
(* models.py: the four dataclasses and their __post_init__.  A Python      *)
(* value is a record with its kind: None, a list, a dict, a text, an int   *)
(* or a datetime.  The arguments of a constructor call are the fields      *)
(* declared with the default None, each omitted, passed as None or passed  *)
(* with a value.                                                           *)

Omitted == [kind |-> "omitted"]

List(items) == [kind |-> "list", items |-> items]

Dict(entries) == [kind |-> "dict", entries |-> entries]

Text(text) == [kind |-> "text", text |-> text]

IntV(n) == [kind |-> "int", n |-> n]

Classes == {"OSSFuzzProject", "FuzzTarget", "FuzzingExecution", "CoverageReport"}

\* the fields each class declares with "= None", and their annotated types
FieldTypes(c) ==
  CASE c = "OSSFuzzProject" ->
         [language |-> "text", main_repo |-> "text", sanitizers |-> "list",
          fuzzing_engines |-> "list", architectures |-> "list",
          maintainers |-> "list", config |-> "dict"]
    [] c = "FuzzTarget" ->
         [build_script |-> "text", source_files |-> "list",
          dependencies |-> "list", environment_vars |-> "dict"]
    [] c = "FuzzingExecution" ->
         [end_time |-> "datetime", corpus_dir |-> "text",
          output_dir |-> "text", duration |-> "int", max_memory |-> "int",
          environment_vars |-> "dict"]
    [] c = "CoverageReport" ->
         [covered_lines |-> "list", covered_functions |-> "list",
          uncovered_lines |-> "list", uncovered_functions |-> "list"]

\* FuzzingExecution.start_time, and datetime.now() at construction
StartTime == Naive(toordinal(2023, 1, 1), 0)

NowAtInit == Naive(toordinal(2023, 1, 1), 3600)

\* a value of each type a caller passes
Sample(type) ==
  CASE type = "list" -> List(<<"x">>)
    [] type = "dict" -> Dict([k |-> "v"])
    [] type = "text" -> Text("s")
    [] type = "int" -> IntV(60)
    [] type = "datetime" -> Naive(toordinal(2023, 1, 1), 60)

\* the generated __init__: an omitted argument takes its default, None
dataclass_init(args) ==
  [f \in DOMAIN args |-> IF args[f] = Omitted THEN None ELSE args[f]]

\* "if self.x is None: self.x = d"
IfNone(v, d) == IF v = None THEN d ELSE v

OSSFuzzProject_post_init(self) ==
  [self EXCEPT !.sanitizers = IfNone(@, List(<<>>)),
               !.fuzzing_engines = IfNone(@, List(<<>>)),
               !.architectures = IfNone(@, List(<<>>)),
               !.maintainers = IfNone(@, List(<<>>)),
               !.config = IfNone(@, Dict(<<>>))]

FuzzTarget_post_init(self) ==
  [self EXCEPT !.source_files = IfNone(@, List(<<>>)),
               !.dependencies = IfNone(@, List(<<>>)),
               !.environment_vars = IfNone(@, Dict(<<>>))]

\* int((self.end_time - self.start_time).total_seconds())
FuzzingExecution_post_init(self) ==
  LET end_time == IfNone(self.end_time, NowAtInit)
  IN  [self EXCEPT !.environment_vars = IfNone(@, Dict(<<>>)),
                   !.end_time = end_time,
                   !.duration =
                      IfNone(@, IntV(Instant(end_time) - Instant(StartTime)))]

\* a __post_init__ that stops one field short
CoverageReport_post_init_short(self) ==
  [self EXCEPT !.covered_lines = IfNone(@, List(<<>>)),
               !.covered_functions = IfNone(@, List(<<>>)),
               !.uncovered_lines = IfNone(@, List(<<>>))]

CoverageReport_post_init(self) ==
  [self EXCEPT !.covered_lines = IfNone(@, List(<<>>)),
               !.covered_functions = IfNone(@, List(<<>>)),
               !.uncovered_lines = IfNone(@, List(<<>>)),
               !.uncovered_functions = IfNone(@, List(<<>>))]

\* the constructor calls the model makes
CtorArgs(c) ==
  LET types == FieldTypes(c)
  IN  {a \in [DOMAIN types -> {Omitted, None} \cup {Sample(t) : t \in
                 {"list", "dict", "text", "int", "datetime"}}] :
         \A f \in DOMAIN types : a[f] \in {Omitted, None, Sample(types[f])}}

InitRec ==
  /\ cls \in Classes
  /\ ctor_args \in CtorArgs(cls)
  /\ rec_pc = "start"
  /\ obj = <<>>
  /\ ExtOff
  /\ ValOff
  /\ DateOff
  /\ RepoOff
  /\ CliOff
  /\ CallOff
  /\ MemOff
  /\ ThrOff
  /\ FzOff
  /\ SesOff

NewOSSFuzzProject ==
  /\ rec_pc = "start"
  /\ cls = "OSSFuzzProject"
  /\ obj' = OSSFuzzProject_post_init(dataclass_init(ctor_args))
  /\ rec_pc' = "built"
  /\ UNCHANGED <<cls, ctor_args>>
  /\ UNCHANGED notRec

NewFuzzTarget ==
  /\ rec_pc = "start"
  /\ cls = "FuzzTarget"
  /\ obj' = FuzzTarget_post_init(dataclass_init(ctor_args))
  /\ rec_pc' = "built"
  /\ UNCHANGED <<cls, ctor_args>>
  /\ UNCHANGED notRec

NewFuzzingExecution ==
  /\ rec_pc = "start"
  /\ cls = "FuzzingExecution"
  /\ obj' = FuzzingExecution_post_init(dataclass_init(ctor_args))
  /\ rec_pc' = "built"
  /\ UNCHANGED <<cls, ctor_args>>
  /\ UNCHANGED notRec

NewCoverageReport ==
  /\ rec_pc = "start"
  /\ cls = "CoverageReport"
  /\ obj' = CoverageReport_post_init(dataclass_init(ctor_args))
  /\ rec_pc' = "built"
  /\ UNCHANGED <<cls, ctor_args>>
  /\ UNCHANGED notRec

NextRec ==
  \/ NewOSSFuzzProject
  \/ NewFuzzTarget
  \/ NewFuzzingExecution
  \/ NewCoverageReport

SpecRec == InitRec /\ [][NextRec]_vars

\* C11: in every record built, each field declared as an optional list or
\* mapping is a list or a mapping: the empty one when the argument was
\* omitted or None, the argument itself otherwise.
C11_ContainersNeverNull ==
  rec_pc = "built" =>
    \A f \in DOMAIN ctor_args :
      FieldTypes(cls)[f] \in {"list", "dict"} =>
        /\ obj[f].kind = FieldTypes(cls)[f]
        /\ ctor_args[f].kind \in {"omitted", "None"} =>
             obj[f] = (IF FieldTypes(cls)[f] = "list" THEN List(<<>>)
                                                      ELSE Dict(<<>>))
        /\ ctor_args[f].kind \notin {"omitted", "None"} => obj[f] = ctor_args[f]

\* a CoverageReport was built with one list omitted and another None
C11_Witness ==
  /\ rec_pc = "built"
  /\ cls = "CoverageReport"
  /\ ctor_args.covered_lines = Omitted
  /\ ctor_args.uncovered_functions = None
  /\ obj.uncovered_functions = List(<<>>)
  /\ obj.covered_lines = List(<<>>)

-----------------------------------------------------------------------------
(* Repository-root resolution of the client (utils/client.py).  A candidate *)
(* location is absent, a bare directory, a directory with a projects       *)
(* subdirectory, or a full checkout (projects and infra).                  *)

CwdDir == "./oss-fuzz"

ParentDir == "../oss-fuzz"

HomeDir == "~/oss-fuzz"

TmpDir == "/tmp/oss-fuzz"

EnvDir == "/data/oss-fuzz"

Locations == {CwdDir, ParentDir, HomeDir, TmpDir, EnvDir}

DirKinds == {"absent", "bare", "projects", "full"}

\* os.path.exists / Path.is_dir of a candidate location
PathExists(w, l) == l \in DOMAIN w /\ w[l] # "absent"

\* (location / "infra").is_dir()
HasInfra(w, l) == l \in DOMAIN w /\ w[l] = "full"

\* os.path.exists(os.path.join(loc, "projects"))
HasProjects(w, l) == l \in DOMAIN w /\ w[l] \in {"projects", "full"}

\* OSSFuzzClient.__init__: self.oss_fuzz_dir = os.getenv("OSS_FUZZ_DIR")
client_init(env) == env

\* the candidate list of _find_oss_fuzz_repo, the environment variable last
common_locations(env) ==
  <<CwdDir, ParentDir, HomeDir, TmpDir,
    IF env = "None" THEN "nonexistent" ELSE env>>

\* the first candidate that is a directory with an infra subdirectory
_find_oss_fuzz_repo(env, w) ==
  LET locs == common_locations(env)
      hits == {i \in DOMAIN locs :
                 PathExists(w, locs[i]) /\ HasInfra(w, locs[i])}
  IN  IF hits = {} THEN "None"
      ELSE locs[CHOOSE i \in hits : \A j \in hits : i <= j]

\* the locations get_oss_fuzz_dir probes when self.oss_fuzz_dir is unusable
probe_locations == <<HomeDir, CwdDir>>

\* get_oss_fuzz_dir: the value returned and self.oss_fuzz_dir afterwards
get_oss_fuzz_dir(cdir, w) ==
  IF cdir # "None" /\ PathExists(w, cdir)
  THEN [value |-> cdir, dir |-> cdir]
  ELSE LET hits == {i \in DOMAIN probe_locations :
                      /\ PathExists(w, probe_locations[i])
                      /\ HasProjects(w, probe_locations[i])}
       IN  IF hits = {} THEN [value |-> "None", dir |-> cdir]
           ELSE LET loc == probe_locations[
                             CHOOSE i \in hits : \A j \in hits : i <= j]
                IN  [value |-> loc, dir |-> loc]

\* clone_oss_fuzz(target_dir): an existing target is adopted as it is, a
\* missing one is created with an empty projects subdirectory
clone_oss_fuzz(target_dir, w, pr) ==
  LET target == IF target_dir = "None" THEN HomeDir ELSE target_dir
  IN  IF PathExists(w, target)
      THEN [value |-> target, dir |-> target, where |-> w, proj |-> pr]
      ELSE [value |-> target, dir |-> target,
            where |-> [w EXCEPT ![target] = "projects"],
            proj |-> [pr EXCEPT ![target] = {}]]

NoDirs == [l \in Locations |-> {}]

InitRoot ==
  /\ ExtOff
  /\ ValOff
  /\ DateOff
  /\ RepoOff
  /\ RecOff
  /\ environ \in {"None", EnvDir}
  /\ where = [l \in Locations |-> "absent"]
  /\ proj = NoDirs
  /\ creds = FALSE
  /\ client_dir = client_init(environ)
  /\ cached_projects = None
  /\ call_fn = "none"
  /\ call_args = <<>>
  /\ call_pc = "idle"
  /\ call_ret = <<>>
  /\ fs_log = <<>>
  /\ MemOff
  /\ ThrOff
  /\ FzOff
  /\ SesOff

\* the environment creates, fills or removes a candidate location
SetLocation(l, kind) ==
  /\ call_pc = "idle"
  /\ where[l] # kind
  /\ where' = [where EXCEPT ![l] = kind]
  /\ UNCHANGED <<environ, proj, creds, client_dir, cached_projects>>
  /\ UNCHANGED callVars
  /\ UNCHANGED notClient

CallFindOssFuzzRepo ==
  /\ call_pc = "idle"
  /\ call_fn' = "_find_oss_fuzz_repo"
  /\ call_ret' = _find_oss_fuzz_repo(environ, where)
  /\ call_pc' = "done"
  /\ UNCHANGED <<call_args, fs_log>>
  /\ UNCHANGED cliVars
  /\ UNCHANGED notClient

CallGetOssFuzzDir ==
  /\ call_pc = "idle"
  /\ LET r == get_oss_fuzz_dir(client_dir, where)
     IN  /\ call_ret' = r.value
         /\ client_dir' = r.dir
  /\ call_fn' = "get_oss_fuzz_dir"
  /\ call_pc' = "done"
  /\ UNCHANGED <<call_args, fs_log>>
  /\ UNCHANGED <<environ, where, proj, creds, cached_projects>>
  /\ UNCHANGED notClient

CallCloneOssFuzz ==
  /\ call_pc = "idle"
  /\ LET r == clone_oss_fuzz("None", where, proj)
     IN  /\ call_ret' = r.value
         /\ client_dir' = r.dir
         /\ where' = r.where
         /\ proj' = r.proj
  /\ call_fn' = "clone_oss_fuzz"
  /\ call_pc' = "done"
  /\ UNCHANGED <<call_args, fs_log>>
  /\ UNCHANGED <<environ, creds, cached_projects>>
  /\ UNCHANGED notClient

RootReturn ==
  /\ call_pc = "done"
  /\ call_pc' = "idle"
  /\ UNCHANGED <<call_fn, call_args, call_ret, fs_log>>
  /\ UNCHANGED cliVars
  /\ UNCHANGED notClient

NextRoot ==
  \/ \E l \in Locations, kind \in DirKinds : SetLocation(l, kind)
  \/ CallFindOssFuzzRepo
  \/ CallGetOssFuzzDir
  \/ CallCloneOssFuzz
  \/ RootReturn

SpecRoot == InitRoot /\ [][NextRoot]_vars

\* the override variable is set and names a full checkout
OverrideValid == environ # "None" /\ where[environ] = "full"

\* C15: when OSS_FUZZ_DIR is set and points at a valid root, each way of
\* resolving the repository root (_find_oss_fuzz_repo, and get_oss_fuzz_dir
\* on a client still holding the directory it was constructed with) returns
\* that root, whatever other candidate locations hold.
C15_OverrideWins ==
  (/\ call_pc = "done"
   /\ OverrideValid
   /\ \/ call_fn = "_find_oss_fuzz_repo"
      \/ call_fn = "get_oss_fuzz_dir" /\ client_dir = environ) =>
    call_ret = environ

\* the candidates in the order the specification gives them
ClaimedOrder == <<CwdDir, ParentDir, HomeDir, TmpDir>>

\* the first candidate of that order among the marked ones
FirstQualifying(marked) ==
  LET hits == {i \in DOMAIN ClaimedOrder : ClaimedOrder[i] \in marked}
  IN  IF hits = {} THEN "None"
      ELSE ClaimedOrder[CHOOSE i \in hits : \A j \in hits : i <= j]

\* the call that ends in this step probed the candidates: it is
\* _find_oss_fuzz_repo without a valid override, or get_oss_fuzz_dir on a
\* client whose oss_fuzz_dir is unset or gone
Discovers(fn) ==
  /\ call_pc = "idle"
  /\ call_pc' = "done"
  /\ call_fn' = fn
  /\ \/ fn = "_find_oss_fuzz_repo" /\ ~OverrideValid
     \/ fn = "get_oss_fuzz_dir"
          /\ ~(client_dir # "None" /\ PathExists(where, client_dir))

\* C23: root discovery returns the first of the current directory, its
\* parent, the home directory and the temp directory, in that order, that
\* holds the marker subdirectory the function looks for, and reports
\* "not found" when none of them does.
C23_FixedProbeOrder ==
  [][/\ Discovers("_find_oss_fuzz_repo") =>
          call_ret' = FirstQualifying({l \in Locations : HasInfra(where, l)})
     /\ Discovers("get_oss_fuzz_dir") =>
          call_ret' = FirstQualifying({l \in Locations : HasProjects(where, l)})
    ]_vars

-----------------------------------------------------------------------------
(* The project-name cache of the client (get_projects, utils/client.py),   *)
(* called by concurrent callers.  Each statement of get_projects that      *)
(* reads or writes the client or the filesystem is one step, so that the   *)
(* callers and the environment interleave between them.                     *)

\* the variables outside the client, its list objects and its callers
notCache == <<extVars, valVars, dateVars, repoVars, recVars, callVars, fzVars, sesVars>>

notFz == <<extVars, valVars, dateVars, repoVars, recVars, cliVars, callVars, memVars, thrVars, sesVars>>

NumThreads == 2

MaxCalls == 2

Threads == 1..NumThreads

\* names of the directories that may appear under a projects directory
DirNames == {<<"a">>, <<"0">>}

\* the roots the environment changes while the callers run
CacheRoots == {HomeDir}

\* a reference to the list object allocated n-th
Ref(n) == [kind |-> "ref", id |-> n]

\* the truth value Python gives to None or to a list
Truthy(v, h) == v.kind = "ref" /\ h[v.id] # <<>>

NoLocals == [dir |-> "None", projects |-> None, seen |-> {}]

InitCache ==
  /\ ExtOff
  /\ ValOff
  /\ DateOff
  /\ RepoOff
  /\ RecOff
  /\ CallOff
  /\ environ = "None"
  /\ where = [l \in Locations |-> "absent"]
  /\ proj = NoDirs
  /\ creds = FALSE
  /\ client_dir = client_init(environ)
  /\ cached_projects = None
  /\ heap = <<>>
  /\ stores = <<>>
  /\ th_pc = [t \in Threads |-> "idle"]
  /\ th_loc = [t \in Threads |-> NoLocals]
  /\ th_ret = [t \in Threads |-> None]
  /\ FzOff
  /\ SesOff

\* the environment clones or removes a repository root
MkRoot(l) ==
  /\ where[l] = "absent"
  /\ where' = [where EXCEPT ![l] = "projects"]
  /\ UNCHANGED <<environ, proj, creds, client_dir, cached_projects>>
  /\ UNCHANGED <<memVars, thrVars, notCache>>

RmRoot(l) ==
  /\ where[l] # "absent"
  /\ where' = [where EXCEPT ![l] = "absent"]
  /\ proj' = [proj EXCEPT ![l] = {}]
  /\ UNCHANGED <<environ, creds, client_dir, cached_projects>>
  /\ UNCHANGED <<memVars, thrVars, notCache>>

\* the environment adds or removes a project directory
MkProject(l, n) ==
  /\ HasProjects(where, l)
  /\ n \notin proj[l]
  /\ proj' = [proj EXCEPT ![l] = @ \cup {n}]
  /\ UNCHANGED <<environ, where, creds, client_dir, cached_projects>>
  /\ UNCHANGED <<memVars, thrVars, notCache>>

RmProject(l, n) ==
  /\ n \in proj[l]
  /\ proj' = [proj EXCEPT ![l] = @ \ {n}]
  /\ UNCHANGED <<environ, where, creds, client_dir, cached_projects>>
  /\ UNCHANGED <<memVars, thrVars, notCache>>

\* a caller enters get_projects; seen records the lists stored before
Begin(t) ==
  /\ th_pc[t] = "idle"
  /\ Len(heap) < MaxCalls
  /\ th_pc' = [th_pc EXCEPT ![t] = "check"]
  /\ th_loc' = [th_loc EXCEPT ![t] = [NoLocals EXCEPT !.seen = Range(stores)]]
  /\ UNCHANGED <<th_ret, cliVars, memVars, notCache>>

\* if self.cached_projects: return self.cached_projects
CheckCache(t) ==
  /\ th_pc[t] = "check"
  /\ IF Truthy(cached_projects, heap)
       THEN /\ th_ret' = [th_ret EXCEPT ![t] = cached_projects]
            /\ th_pc' = [th_pc EXCEPT ![t] = "done"]
       ELSE /\ th_pc' = [th_pc EXCEPT ![t] = "resolve"]
            /\ UNCHANGED th_ret
  /\ UNCHANGED <<th_loc, cliVars, memVars, notCache>>

\* return []: the caller is handed a new empty list
ReturnEmpty(t) ==
  /\ heap' = Append(heap, <<>>)
  /\ th_ret' = [th_ret EXCEPT ![t] = Ref(Len(heap) + 1)]
  /\ th_pc' = [th_pc EXCEPT ![t] = "done"]

\* oss_fuzz_dir = self.get_oss_fuzz_dir(); if not oss_fuzz_dir: return []
Resolve(t) ==
  /\ th_pc[t] = "resolve"
  /\ LET r == get_oss_fuzz_dir(client_dir, where)
     IN  /\ client_dir' = r.dir
         /\ IF r.value = "None"
              THEN /\ ReturnEmpty(t)
                   /\ UNCHANGED th_loc
              ELSE /\ th_loc' = [th_loc EXCEPT ![t].dir = r.value]
                   /\ th_pc' = [th_pc EXCEPT ![t] = "exists"]
                   /\ UNCHANGED <<th_ret, heap>>
  /\ UNCHANGED <<environ, where, proj, creds, cached_projects, stores>>
  /\ UNCHANGED notCache

\* if not os.path.exists(projects_dir): return []
ProjectsDirExists(t) ==
  /\ th_pc[t] = "exists"
  /\ IF HasProjects(where, th_loc[t].dir)
       THEN /\ th_pc' = [th_pc EXCEPT ![t] = "list"]
            /\ UNCHANGED <<th_ret, heap>>
       ELSE ReturnEmpty(t)
  /\ UNCHANGED <<th_loc, cliVars, stores, notCache>>

\* projects = [d for d in os.listdir(projects_dir) if os.path.isdir(...)],
\* in the order the directory is read; a failing listdir returns []
ListProjects(t) ==
  /\ th_pc[t] = "list"
  /\ IF HasProjects(where, th_loc[t].dir)
       THEN \E order \in Orders(proj[th_loc[t].dir]) :
              /\ heap' = Append(heap, order)
              /\ th_loc' = [th_loc EXCEPT
                              ![t].projects = Ref(Len(heap) + 1)]
              /\ th_pc' = [th_pc EXCEPT ![t] = "store"]
              /\ UNCHANGED th_ret
       ELSE /\ ReturnEmpty(t)
            /\ UNCHANGED th_loc
  /\ UNCHANGED <<cliVars, stores, notCache>>

\* self.cached_projects = projects; return projects
StoreCache(t) ==
  /\ th_pc[t] = "store"
  /\ cached_projects' = th_loc[t].projects
  /\ stores' = Append(stores, th_loc[t].projects)
  /\ th_ret' = [th_ret EXCEPT ![t] = th_loc[t].projects]
  /\ th_pc' = [th_pc EXCEPT ![t] = "done"]
  /\ UNCHANGED <<environ, where, proj, creds, client_dir>>
  /\ UNCHANGED <<th_loc, heap, notCache>>

\* the caller has its list and may call again
Finish(t) ==
  /\ th_pc[t] = "done"
  /\ th_pc' = [th_pc EXCEPT ![t] = "idle"]
  /\ UNCHANGED <<th_loc, th_ret, cliVars, memVars, notCache>>

NextCache ==
  \/ \E l \in CacheRoots : MkRoot(l)
  \/ \E l \in CacheRoots : RmRoot(l)
  \/ \E l \in CacheRoots, n \in DirNames : MkProject(l, n)
  \/ \E l \in CacheRoots, n \in DirNames : RmProject(l, n)
  \/ \E t \in Threads : Begin(t)
  \/ \E t \in Threads : CheckCache(t)
  \/ \E t \in Threads : Resolve(t)
  \/ \E t \in Threads : ProjectsDirExists(t)
  \/ \E t \in Threads : ListProjects(t)
  \/ \E t \in Threads : StoreCache(t)
  \/ \E t \in Threads : Finish(t)

SpecCache == InitCache /\ [][NextCache]_vars

\* C16: under every interleaving of concurrent get_projects callers the
\* cache is assigned at most once, and no step of any caller changes the
\* contents of a list object that already exists (so a list handed to a
\* caller stays as it was handed over).
C16_PopulatedOnce ==
  [][/\ Len(stores') <= 1
     /\ \A i \in DOMAIN heap : heap'[i] = heap[i]]_vars

\* C17: once get_projects has stored a list in the cache, every call that
\* starts afterwards returns that very list, whatever happened to the
\* projects directory or to the repository root in between.
C17_CacheNeverInvalidated ==
  \A t \in Threads :
    th_pc[t] = "done" => \A l \in th_loc[t].seen : th_ret[t] = l

-----------------------------------------------------------------------------
(* Filtered project listing (project_info/api.py get_projects) over the    *)
(* repository of the reader above.                                          *)

\* str.lower() on the language names in use
LowerStr(x) == IF x = "C++" THEN "c++" ELSE x

\* a filter argument that is None or empty is not applied
Given(x) == x # "None" /\ x # ""

\* one `projects = [p for p in projects if ... p.get(key, default) ...]`,
\* kept being the elements that satisfy the condition: evaluating the
\* condition looks up the attribute get on the first element, which an
\* OSSFuzzProject record does not have
FilterBy(projects, kept) ==
  IF projects = <<>> THEN Ok(<<>>)
  ELSE IF "get" \notin DOMAIN projects[1]
    THEN Fail("AttributeError",
              "'OSSFuzzProject' object has no attribute 'get'", <<>>)
  ELSE Ok(kept)

\* the three filters in turn, inside the try block
apply_filters(projects, language, sanitizer, fuzzer_engine) ==
  LET byLang ==
        IF Given(language)
          THEN FilterBy(projects,
                 SelectSeq(projects,
                   LAMBDA p : LowerStr(Get(p, "language", ""))
                                = LowerStr(language)))
          ELSE Ok(projects)
      bySan ==
        IF ~byLang.ok THEN byLang
        ELSE IF Given(sanitizer)
          THEN FilterBy(byLang.value,
                 SelectSeq(byLang.value,
                   LAMBDA p : InSeq(sanitizer, Get(p, "sanitizers", <<>>))))
        ELSE byLang
  IN  IF ~bySan.ok THEN bySan
      ELSE IF Given(fuzzer_engine)
        THEN FilterBy(bySan.value,
               SelectSeq(bySan.value,
                 LAMBDA p : InSeq(fuzzer_engine,
                                  Get(p, "fuzzing_engines", <<>>))))
      ELSE bySan

\* get_projects(language, sanitizer=, fuzzer_engine=): any exception of the
\* listing or of a filter is logged and [] returned
get_projects(language, sanitizer, fuzzer_engine, root, pexists, tr, order) ==
  LET listed == get_projects_from_repo(root, pexists, tr, order)
  IN  IF ~listed.ok THEN Ok(<<>>)
      ELSE LET r == apply_filters(listed.value, language, sanitizer,
                                  fuzzer_engine)
           IN  IF r.ok THEN r ELSE Ok(<<>>)

LanguageArgs == {"None", "", "c++", "C++", "unknown"}

SanitizerArgs == {"None", "address", "memory"}

EngineArgs == {"None", "libfuzzer"}

NoFilter == [language |-> "None", sanitizer |-> "None", fuzzer_engine |-> "None"]

CallGetProjects(language, sanitizer, fuzzer_engine) ==
  /\ repo_pc = "idle"
  /\ \E order \in Orders(Entries(tree)) :
       repo_ret' = get_projects(language, sanitizer, fuzzer_engine,
                                oss_fuzz_dir, projects_exists, tree, order)
  /\ repo_arg' = [language |-> language, sanitizer |-> sanitizer,
                  fuzzer_engine |-> fuzzer_engine]
  /\ repo_pc' = "filter"
  /\ UNCHANGED <<oss_fuzz_dir, projects_exists, tree>>
  /\ UNCHANGED notRepo

FilterReturn ==
  /\ repo_pc = "filter"
  /\ repo_pc' = "idle"
  /\ repo_arg' = "None"
  /\ repo_ret' = NoOutcome
  /\ UNCHANGED <<oss_fuzz_dir, projects_exists, tree>>
  /\ UNCHANGED notRepo

NextFilter ==
  \/ MkProjects
  \/ RmProjects
  \/ \E n \in ProjNames, kind \in {"dir", "file"} : MkEntry(n, kind)
  \/ \E n \in ProjNames : RmEntry(n)
  \/ \E n \in ProjNames, m \in ManifestKinds, keys \in WrittenKeys :
       SetManifest(n, m, keys)
  \/ \E l \in LanguageArgs, s \in SanitizerArgs, e \in EngineArgs :
       CallGetProjects(l, s, e)
  \/ FilterReturn

SpecFilter == InitRepo /\ [][NextFilter]_vars

\* the projects of the repository whose manifest can be read
Readable ==
  IF oss_fuzz_dir = "None" \/ ~projects_exists THEN {}
  ELSE SubDirs \ BadManifest

\* the language, sanitizers and engines a readable project declares
Declared(n, key, default) ==
  IF tree[n].manifest = "mapping" /\ key \in tree[n].keys
    THEN FullConfig[key]
    ELSE default

\* the readable projects a call with the filters f is to keep
Wanted(f) ==
  {n \in Readable :
     /\ Given(f.language) =>
          LowerStr(Declared(n, "language", "unknown")) = LowerStr(f.language)
     /\ Given(f.sanitizer) =>
          InSeq(f.sanitizer, Declared(n, "sanitizers", <<>>))
     /\ Given(f.fuzzer_engine) =>
          InSeq(f.fuzzer_engine, Declared(n, "fuzzing_engines", <<>>))}

\* C18: get_projects(language=L) returns exactly the readable projects whose
\* language equals L ignoring case, a sanitizer or fuzzer_engine filter
\* keeps the projects that list that value, and get_projects() without a
\* filter returns every readable project.
C18_FilterExact ==
  repo_pc = "filter" =>
    /\ repo_ret.ok
    /\ {repo_ret.value[i].name : i \in DOMAIN repo_ret.value} = Wanted(repo_arg)

-----------------------------------------------------------------------------
(* Local fuzzing (custom_fuzzing/api.py): run_local_fuzzing writes         *)
(* fuzzing_stats.json into its output directory and analyze_fuzzing_results *)
(* reads it back.  A Python dict is a record; a file is absent, empty or   *)
(* holds the JSON text of a dict.                                           *)

\* project names passed to the public functions: valid ones, ones that
\* validation normalises, and ones it rejects
ApiNames ==
  {<<"a">>, <<"0">>, <<"A">>, <<" ", "a">>, <<"a", "!">>, <<"!">>, <<" ">>, <<>>}

\* run times in seconds
Durations == {0, 1, 5}

NoFile == [kind |-> "absent"]

EmptyFile == [kind |-> "empty"]

\* json.dump(d, f): the file holds the text of d
JsonFile(d) == [kind |-> "json", data |-> d]

\* an output directory that does not exist
NoResults == [exists |-> FALSE, stats |-> NoFile, crash_dir |-> FALSE,
              crash_files |-> 0]

\* os.makedirs(output_dir, exist_ok=True)
makedirs(dir) == [dir EXCEPT !.exists = TRUE]

\* the statements of run_local_fuzzing's try block: the result dict and the
\* output directory afterwards.  The dict for json.dump is built after the
\* file has been opened for writing, so a failing division leaves it empty.
simulate_run(result, duration, dir) ==
  LET filled == [warning |-> "simulated", executions |-> duration * 1000,
                 crashes |-> 0, unique_crashes |-> 0, run_time |-> duration,
                 success |-> TRUE] @@ result
  IN  IF duration = 0
        THEN [result |-> [error |-> "ZeroDivisionError"] @@ filled,
              dir |-> [dir EXCEPT !.stats = EmptyFile]]
        ELSE [result |-> filled,
              dir |-> [dir EXCEPT !.stats =
                         JsonFile([executions |-> filled.executions,
                                   crashes |-> filled.crashes,
                                   unique_crashes |-> filled.unique_crashes,
                                   peak_rss |-> 104857600,
                                   average_exec_per_sec |->
                                     filled.executions \div duration])]]

\* run_local_fuzzing(project_name, fuzz_target, duration=, output_dir=):
\* the outcome and the output directory afterwards
run_local_fuzzing(name, target_given, target_exists, duration, dir) ==
  LET v == validate_project_name(name)
  IN  IF ~v.ok THEN [ret |-> v, dir |-> dir]
      ELSE IF ~target_given \/ ~target_exists
        THEN [ret |-> Raised("ValueError"), dir |-> dir]
      ELSE LET made == makedirs(dir)
               result == [project |-> v.value, duration |-> duration,
                          success |-> FALSE]
               ran == simulate_run(result, duration, made)
           IN  [ret |-> Returned(ran.result), dir |-> ran.dir]

\* analyze_fuzzing_results(results_dir)
analyze_fuzzing_results(dir) ==
  IF ~dir.exists THEN Raised("ValueError")
  ELSE LET result == [success |-> FALSE]
       IN  IF dir.stats.kind = "empty"
             THEN Returned([error |-> "JSONDecodeError"] @@ result)
           ELSE LET read == IF dir.stats.kind = "json"
                              THEN dir.stats.data @@ result
                              ELSE result
                    counted == IF dir.crash_dir
                                 THEN [crash_count |-> dir.crash_files] @@ read
                                 ELSE read
                IN  Returned([success |-> TRUE] @@ counted)

InitFuzz ==
  /\ ExtOff
  /\ ValOff
  /\ DateOff
  /\ RepoOff
  /\ RecOff
  /\ CliOff
  /\ CallOff
  /\ MemOff
  /\ ThrOff
  /\ fz_files = NoResults
  /\ fz_target \in BOOLEAN
  /\ fz_pc = "idle"
  /\ fz_args = <<>>
  /\ fz_run = Raised("none")
  /\ fz_an = Raised("none")
  /\ SesOff

\* the environment builds or deletes the fuzz target binary
SetTarget(present) ==
  /\ fz_pc = "idle"
  /\ fz_target # present
  /\ fz_target' = present
  /\ UNCHANGED <<fz_files, fz_pc, fz_args, fz_run, fz_an, notFz>>

\* a crash file appears in the crashes subdirectory of the output directory
AddCrashFile ==
  /\ fz_pc = "idle"
  /\ fz_files.exists
  /\ fz_files.crash_files < 1
  /\ fz_files' = [fz_files EXCEPT !.crash_dir = TRUE, !.crash_files = @ + 1]
  /\ UNCHANGED <<fz_target, fz_pc, fz_args, fz_run, fz_an, notFz>>

\* the output directory is deleted
RmResults ==
  /\ fz_pc = "idle"
  /\ fz_files.exists
  /\ fz_files' = NoResults
  /\ UNCHANGED <<fz_target, fz_pc, fz_args, fz_run, fz_an, notFz>>

CallRunLocalFuzzing(name, target_given, duration) ==
  /\ fz_pc = "idle"
  /\ LET r == run_local_fuzzing(name, target_given, fz_target, duration,
                                fz_files)
     IN  /\ fz_run' = r.ret
         /\ fz_files' = r.dir
  /\ fz_args' = [project_name |-> name, fuzz_target |-> target_given,
                 duration |-> duration]
  /\ fz_an' = Raised("none")
  /\ fz_pc' = "ran"
  /\ UNCHANGED <<fz_target, notFz>>

\* the caller analyses the output directory of the run it has just made
CallAnalyzeFuzzingResults ==
  /\ fz_pc = "ran"
  /\ fz_an' = analyze_fuzzing_results(fz_files)
  /\ fz_pc' = "analyzed"
  /\ UNCHANGED <<fz_files, fz_target, fz_args, fz_run, notFz>>

FuzzReturn ==
  /\ fz_pc \in {"ran", "analyzed"}
  /\ fz_pc' = "idle"
  /\ UNCHANGED <<fz_files, fz_target, fz_args, fz_run, fz_an, notFz>>

NextFuzz ==
  \/ \E present \in BOOLEAN : SetTarget(present)
  \/ AddCrashFile
  \/ RmResults
  \/ \E name \in ApiNames, given \in BOOLEAN, d \in Durations :
       CallRunLocalFuzzing(name, given, d)
  \/ CallAnalyzeFuzzingResults
  \/ FuzzReturn

SpecFuzz == InitFuzz /\ [][NextFuzz]_vars

\* C20: analyze_fuzzing_results applied to the output directory of a
\* run_local_fuzzing call that returned success returns success True and the
\* executions, crashes and unique_crashes values the run returned.
C20_AnalysisMatchesRun ==
  (fz_pc = "analyzed" /\ fz_run.ok /\ fz_run.value.success) =>
    /\ fz_an.ok
    /\ fz_an.value.success
    /\ "executions" \in DOMAIN fz_an.value
    /\ fz_an.value.executions = fz_run.value.executions
    /\ fz_an.value.crashes = fz_run.value.crashes
    /\ fz_an.value.unique_crashes = fz_run.value.unique_crashes

\* C26: every result run_local_fuzzing returns, for every duration
\* including 0, has success True exactly when it has no error field.
C26_SuccessIffNoError ==
  (fz_pc \in {"ran", "analyzed"} /\ fz_run.ok) =>
    (fz_run.value.success <=> "error" \notin DOMAIN fz_run.value)

-----------------------------------------------------------------------------
(* The public functions that take a project name (project_info/api.py,     *)
(* historical_results/api.py, custom_fuzzing/api.py) and the client        *)
(* methods under them.  A call yields its outcome, the filesystem          *)
(* operations it performed, in order, and the client afterwards.  st is    *)
(* the client with its surroundings: [dir, where, proj, cache, heap,       *)
(* stores].                                                                *)

ClientState ==
  [dir |-> client_dir, where |-> where, proj |-> proj,
   cache |-> cached_projects, heap |-> heap, stores |-> stores]

\* the outcome of a call, its filesystem operations and the client after it
Done(ret, log, st) == [ret |-> ret, log |-> log, st |-> st]

\* the filesystem operations of get_oss_fuzz_dir: os.path.exists on
\* self.oss_fuzz_dir when it is set, then on the probed locations
resolve_log(cdir, w) ==
  IF cdir # "None" /\ PathExists(w, cdir) THEN <<"exists">>
  ELSE (IF cdir # "None" THEN <<"exists">> ELSE <<>>)
         \o (IF PathExists(w, HomeDir) /\ HasProjects(w, HomeDir)
               THEN <<"exists", "exists">>
             ELSE IF PathExists(w, HomeDir)
               THEN <<"exists", "exists", "exists">>
             ELSE <<"exists", "exists">>)

\* a new list object holding items
Alloc(st, items) == [st EXCEPT !.heap = Append(@, items)]

\* OSSFuzzClient.get_projects(), the whole call; order is the order in which
\* os.listdir yields the names it finds
client_get_projects(st, order) ==
  IF Truthy(st.cache, st.heap) THEN Done(st.cache, <<>>, st)
  ELSE LET r == get_oss_fuzz_dir(st.dir, st.where)
           log == resolve_log(st.dir, st.where)
           st1 == [st EXCEPT !.dir = r.dir]
           new == Ref(Len(st.heap) + 1)
       IN  IF r.value = "None" THEN Done(new, log, Alloc(st1, <<>>))
           ELSE IF ~HasProjects(st.where, r.value)
             THEN Done(new, Append(log, "exists"), Alloc(st1, <<>>))
           ELSE LET projects ==
                      SelectSeq(order, LAMBDA d : d \in st.proj[r.value])
                IN  Done(new, log \o <<"exists", "listdir">>,
                         [Alloc(st1, projects) EXCEPT
                            !.cache = new, !.stores = Append(@, new)])

\* project_info.list_projects()
list_projects(st, order) == client_get_projects(st, order)

\* what the filesystem holds for a project beyond its directory, and for
\* the paths a caller passes
NoFiles ==
  [yaml |-> FALSE, dockerfile |-> FALSE, script |-> NoScript,
   target |-> FALSE, corpus |-> FALSE, writable |-> TRUE]

\* get_project_details without its test of the project directory
client_get_project_details_untested(st, name, files) ==
  LET r == get_oss_fuzz_dir(st.dir, st.where)
  IN  Done([name |-> name, path |-> <<r.value, "projects", name>>],
           resolve_log(st.dir, st.where), [st EXCEPT !.dir = r.dir])

\* OSSFuzzClient.get_project_details(project_name): the dict version
client_get_project_details(st, name, files) ==
  LET r == get_oss_fuzz_dir(st.dir, st.where)
      log == resolve_log(st.dir, st.where)
      st1 == [st EXCEPT !.dir = r.dir]
  IN  IF r.value = "None"
        THEN Done([error |-> "OSS-Fuzz repository not found"], log, st1)
      ELSE IF name \notin st.proj[r.value]
        THEN Done([error |-> "Project not found"], Append(log, "exists"), st1)
      ELSE LET result == [name |-> name, path |-> <<r.value, "projects", name>>]
               withYaml == IF files.yaml
                             THEN [yaml_exists |-> TRUE] @@ result
                             ELSE result
               withDocker == IF files.dockerfile
                               THEN [dockerfile_exists |-> TRUE] @@ withYaml
                               ELSE withYaml
           IN  Done(withDocker, log \o <<"exists", "exists", "exists">>, st1)

\* project_info.get_project_details(project_name)
api_get_project_details(st, pname, files) ==
  LET v == validate_project_name(pname)
  IN  IF ~v.ok THEN Done(v, <<>>, st)
      ELSE LET d == client_get_project_details(st, v.value, files)
           IN  Done(Returned(d.ret), d.log, d.st)

\* project_info.get_fuzz_targets(project_name)
api_get_fuzz_targets(st, pname, files) ==
  LET v == validate_project_name(pname)
  IN  IF ~v.ok THEN Done(v, <<>>, st)
      ELSE LET d == client_get_project_details(st, v.value, files)
           IN  IF "error" \in DOMAIN d.ret
                 THEN Done(Returned(d.ret), d.log, d.st)
               ELSE LET r == get_oss_fuzz_dir(d.st.dir, d.st.where)
                        log == d.log \o resolve_log(d.st.dir, d.st.where)
                        st2 == [d.st EXCEPT !.dir = r.dir]
                    IN  IF r.value = "None"
                          THEN Done(Returned(
                                 [project |-> v.value,
                                  error |-> "OSS-Fuzz repository not found"]),
                                 log, st2)
                        ELSE LET fuzz_targets ==
                                   _get_fuzz_targets(v.value, files.script)
                             IN  Done(Returned(
                                    [project |-> v.value,
                                     fuzz_targets |-> fuzz_targets,
                                     count |-> Len(fuzz_targets)]),
                                    log \o <<"exists", "open">>, st2)

\* check_project_exists with the name tested as it was passed
check_project_exists_raw(st, pname, order) ==
  LET l == list_projects(st, order)
  IN  Done(Returned(InSeq(pname, l.st.heap[l.ret.id])), l.log, l.st)

\* project_info.check_project_exists(project_name): ValueError is caught
check_project_exists(st, pname, order) ==
  LET v == validate_project_name(pname)
  IN  IF ~v.ok THEN Done(Returned(FALSE), <<>>, st)
      ELSE LET l == list_projects(st, order)
           IN  Done(Returned(InSeq(v.value, l.st.heap[l.ret.id])), l.log, l.st)

\* project_info.get_project_stats(project_name)
get_project_stats(st, pname) ==
  LET v == validate_project_name(pname)
  IN  IF ~v.ok THEN Done(v, <<>>, st)
      ELSE Done(Returned([warning |-> "requires OSS-Fuzz service access",
                          project |-> v.value,
                          example_url |-> <<"stats", v.value>>]), <<>>, st)

\* project_info.get_project_builds(project_name): a list of one dict
get_project_builds(st, pname) ==
  LET v == validate_project_name(pname)
  IN  IF ~v.ok THEN Done(v, <<>>, st)
      ELSE Done(Returned(<<[warning |-> "requires OSS-Fuzz service access",
                            project |-> v.value,
                            example_url |-> <<"build-status", v.value>>]>>),
                <<>>, st)

\* str.lower() on the format names in use
LowerFormat(x) == IF x = "DataFrame" THEN "dataframe" ELSE x

\* pd.DataFrame(rows)
DataFrame(rows) == [kind |-> "DataFrame", rows |-> rows]

\* get_coverage_from_oss_fuzz fetching from the service when it may
get_coverage_from_oss_fuzz_remote(has_gcp_credentials, name) ==
  IF ~has_gcp_credentials
    THEN [error |-> "GCP credentials not found. Cannot fetch coverage data.",
          project |-> name]
    ELSE [project |-> name, overall_coverage |-> 789]

\* OSSFuzzClient.get_coverage_from_oss_fuzz(project_name): the branch
\* without credentials, and the placeholder that stands for the service call
get_coverage_from_oss_fuzz(has_gcp_credentials, name) ==
  IF ~has_gcp_credentials
    THEN [error |-> "GCP credentials not found. Cannot fetch coverage data.",
          project |-> name]
    ELSE [error |-> "GCP credentials not found. Cannot fetch coverage data.",
          project |-> name]

\* OSSFuzzClient.get_coverage(project): the placeholder report of the
\* branch without credentials and the one under the TODO; percentages in
\* tenths
client_get_coverage(has_gcp_credentials, project, now) ==
  IF ~has_gcp_credentials
    THEN CoverageReport_post_init(
           [project |-> project, date |-> now, line_coverage |-> 755,
            function_coverage |-> 823, overall_coverage |-> 789,
            covered_lines |-> List(<<>>), uncovered_lines |-> List(<<>>),
            covered_functions |-> List(<<>>),
            uncovered_functions |-> List(<<>>)])
    ELSE CoverageReport_post_init(
           [project |-> project, date |-> now, line_coverage |-> 755,
            function_coverage |-> 823, overall_coverage |-> 789,
            covered_lines |-> List(<<>>), uncovered_lines |-> List(<<>>),
            covered_functions |-> List(<<>>),
            uncovered_functions |-> List(<<>>)])

\* the sample rows of get_coverage: one per day from start to end when the
\* range spans at least one day
daily_coverage(start, end) ==
  IF end.ord - start.ord > 0
    THEN [i \in 1..(end.ord - start.ord + 1) |-> [date |-> start.ord + i - 1]]
    ELSE <<>>

\* historical_results.get_coverage(project_name, start_date, end_date, format)
get_coverage(st, pname, start_date, end_date, format, now, has_creds) ==
  LET v == validate_project_name(pname)
  IN  IF ~v.ok THEN Done(v, <<>>, st)
      ELSE LET date_range == validate_date_range(start_date, end_date, now)
           IN  IF ~date_range.ok THEN Done(date_range, <<>>, st)
               ELSE LET coverage_info ==
                          get_coverage_from_oss_fuzz(has_creds, v.value)
                        placeholder_data ==
                          [overall_coverage |-> 0, line_coverage |-> 0,
                           function_coverage |-> 0,
                           daily_coverage |->
                             daily_coverage(
                               fromisoformat(date_range.value.start_date),
                               fromisoformat(date_range.value.end_date))]
                        result == placeholder_data @@ coverage_info
                    IN  IF LowerFormat(format) = "dataframe"
                          THEN Done(Returned(DataFrame(result.daily_coverage)),
                                    <<>>, st)
                          ELSE Done(Returned(result), <<>>, st)

\* historical_results.get_crash_reports(project_name, start_date, end_date,
\* format)
get_crash_reports(st, pname, start_date, end_date, format, now) ==
  LET v == validate_project_name(pname)
  IN  IF ~v.ok THEN Done(v, <<>>, st)
      ELSE LET date_range == validate_date_range(start_date, end_date, now)
           IN  IF ~date_range.ok THEN Done(date_range, <<>>, st)
               ELSE IF LowerFormat(format) = "dataframe"
                 THEN Done(Returned(DataFrame(<<>>)), <<>>, st)
               ELSE Done(Returned(
                      [total_crashes |-> 0, unique_crashes |-> 0,
                       crashes |-> <<>>,
                       warning |-> "requires OSS-Fuzz service access",
                       project |-> v.value]), <<>>, st)

\* historical_results.get_coverage_report(project_name, download_path=)
get_coverage_report(st, pname, path_given, files) ==
  LET v == validate_project_name(pname)
  IN  IF ~v.ok THEN Done(v, <<>>, st)
      ELSE LET result == [project |-> v.value, date |-> "latest",
                          warning |-> "requires OSS-Fuzz service access",
                          report_url |-> <<"coverage-report", v.value>>]
           IN  IF ~path_given THEN Done(Returned(result), <<>>, st)
               ELSE IF files.writable
                 THEN Done(Returned([download_path |-> "given",
                                     status |-> "Directory created"] @@ result),
                           <<"mkdir">>, st)
               ELSE Done(Returned([error |-> "Error creating download directory"]
                                    @@ result),
                         <<"mkdir">>, st)

\* OSSFuzzClient.download_corpus, the definition in force (the second one)
client_download_corpus(st, name, fuzzer_name, files) ==
  IF ~files.writable THEN Done(Raised("OSError"), <<"makedirs">>, st)
  ELSE Done(Returned([project |-> name, fuzzer |-> fuzzer_name,
                      output_dir |-> "corpus",
                      warning |-> "This is a simulated corpus.",
                      files_created |-> 5, success |-> TRUE]),
            <<"makedirs", "open", "open", "open", "open", "open">>, st)

\* historical_results.download_corpus(project_name, fuzzer_name)
download_corpus(st, pname, fuzzer_name, files) ==
  LET v == validate_project_name(pname)
  IN  IF ~v.ok THEN Done(v, <<>>, st)
      ELSE IF ~Given(fuzzer_name) THEN Done(Raised("ValueError"), <<>>, st)
      ELSE client_download_corpus(st, v.value, fuzzer_name, files)

\* setup_local_fuzzing with the output directory made before the name is
\* validated
setup_local_fuzzing_mkdir_first(st, pname, target_given, files) ==
  Done(validate_project_name(pname), <<"makedirs">>, st)

\* custom_fuzzing.setup_local_fuzzing(project_name, fuzz_target=)
setup_local_fuzzing(st, pname, target_given, files) ==
  LET v == validate_project_name(pname)
  IN  IF ~v.ok THEN Done(v, <<>>, st)
      ELSE IF ~files.writable THEN Done(Raised("OSError"), <<"makedirs">>, st)
      ELSE
        LET result == [project |-> v.value, setup_dir |-> "setup",
                       success |-> FALSE]
            r == get_oss_fuzz_dir(st.dir, st.where)
            c == clone_oss_fuzz("None", st.where, st.proj)
            root == IF r.value = "None" THEN c.value ELSE r.value
            st1 == IF r.value = "None"
                     THEN [st EXCEPT !.dir = c.dir, !.where = c.where,
                                     !.proj = c.proj]
                     ELSE [st EXCEPT !.dir = r.dir]
            log == <<"makedirs">> \o resolve_log(st.dir, st.where)
                     \o (IF r.value = "None" THEN <<"exists">> ELSE <<>>)
                     \o (IF r.value = "None" /\ ~PathExists(st.where, HomeDir)
                           THEN <<"makedirs", "makedirs">> ELSE <<>>)
                     \o <<"exists">>
        IN  IF v.value \notin st1.proj[root]
              THEN Done(Returned([error |-> "Project not found",
                                  oss_fuzz_dir |-> root] @@ result), log, st1)
            ELSE
              LET available_targets ==
                    IF target_given THEN <<>>
                    ELSE _get_fuzz_targets(v.value, files.script)
                  fuzz_target ==
                    IF target_given THEN <<"given">> ELSE available_targets[1]
              IN  Done(Returned(
                         [success |-> TRUE, warning |-> "placeholder setup",
                          fuzz_target |-> fuzz_target,
                          available_targets |-> available_targets,
                          oss_fuzz_dir |-> root] @@ result),
                       log \o (IF target_given THEN <<>> ELSE <<"exists", "open">>)
                           \o <<"open", "chmod">>,
                       st1)

\* custom_fuzzing.run_local_fuzzing with the operations it performs
api_run_local_fuzzing(st, pname, target_given, duration, files) ==
  LET r == run_local_fuzzing(pname, target_given, files.target, duration,
                             NoResults)
      v == validate_project_name(pname)
  IN  Done(r.ret,
           IF ~v.ok \/ ~target_given THEN <<>>
           ELSE IF ~files.target THEN <<"exists">>
           ELSE <<"exists", "makedirs", "makedirs", "open">>,
           st)

\* custom_fuzzing.collect_coverage(project_name, fuzz_target, corpus_dir)
collect_coverage(st, pname, target_given, corpus_given, files) ==
  LET v == validate_project_name(pname)
  IN  IF ~v.ok THEN Done(v, <<>>, st)
      ELSE IF ~target_given THEN Done(Raised("ValueError"), <<>>, st)
      ELSE IF ~files.target THEN Done(Raised("ValueError"), <<"exists">>, st)
      ELSE IF ~corpus_given
        THEN Done(Raised("ValueError"), <<"exists">>, st)
      ELSE IF ~files.corpus
        THEN Done(Raised("ValueError"), <<"exists", "exists">>, st)
      ELSE IF ~files.writable
        THEN Done(Raised("OSError"), <<"exists", "exists", "makedirs">>, st)
      ELSE Done(Returned([project |-> v.value, corpus_files |-> 0,
                          warning |-> "simulated coverage run",
                          report_path |-> "coverage_report.html",
                          success |-> TRUE]),
                <<"exists", "exists", "makedirs", "listdir", "open">>, st)

\* every variable outside the client, its list objects and its calls
notApi == <<extVars, valVars, dateVars, repoVars, recVars, thrVars, fzVars, sesVars>>

notSes == <<extVars, valVars, dateVars, repoVars, recVars, cliVars, callVars, memVars, thrVars, fzVars>>

\* a build.sh with one compile line, next to no build.sh at all
ApiScripts ==
  {NoScript,
   [exists |-> TRUE, readable |-> TRUE,
    content |-> << <<Tok("$CXX"), Tok("$CXXFLAGS"), SrcPath,
                     Tok("$LIB_FUZZING_ENGINE"), Tok("-o"),
                     OutTok(<<"alpha">>)>> >>]}

\* date arguments: none, a day, a month that does not exist
ApiDates == {None, DateOnly(2023, 1, 31), DateOnly(2023, 13, 1)}

\* datetime.now() during the calls
ApiNow == Naive(toordinal(2023, 2, 1), 43200)

Formats == {"json", "dataframe", "DataFrame"}

FuzzerNames == {"None", "", "fuzz"}

InitApi ==
  /\ ExtOff
  /\ ValOff
  /\ DateOff
  /\ RepoOff
  /\ RecOff
  /\ ThrOff
  /\ FzOff
  /\ environ = "None"
  /\ \E kind \in {"absent", "projects"} :
       where = [l \in Locations |-> IF l = HomeDir THEN kind ELSE "absent"]
  /\ \E dirs \in SUBSET DirNames :
       /\ dirs # {} => HasProjects(where, HomeDir)
       /\ proj = [l \in Locations |-> IF l = HomeDir THEN dirs ELSE {}]
  /\ creds \in BOOLEAN
  /\ client_dir = client_init(environ)
  /\ cached_projects = None
  /\ heap = <<>>
  /\ stores = <<>>
  /\ call_fn = "none"
  /\ call_args = <<>>
  /\ call_pc = "idle"
  /\ call_ret = Raised("none")
  /\ fs_log = <<>>
  /\ SesOff

\* the environment changes the repository between two calls
ApiMkRoot(l) == call_pc = "idle" /\ MkRoot(l)

ApiRmRoot(l) == call_pc = "idle" /\ RmRoot(l)

ApiMkProject(l, n) == call_pc = "idle" /\ MkProject(l, n)

ApiRmProject(l, n) == call_pc = "idle" /\ RmProject(l, n)

\* a call made by an idle caller: its outcome, its filesystem operations
\* and the client after it
Called(fn, args, d) ==
  /\ call_pc = "idle"
  /\ call_fn' = fn
  /\ call_args' = args
  /\ call_ret' = d.ret
  /\ fs_log' = d.log
  /\ call_pc' = "done"
  /\ client_dir' = d.st.dir
  /\ where' = d.st.where
  /\ proj' = d.st.proj
  /\ cached_projects' = d.st.cache
  /\ heap' = d.st.heap
  /\ stores' = d.st.stores
  /\ UNCHANGED <<environ, creds, notApi>>

CallListProjects ==
  /\ Len(heap) < MaxCalls
  /\ \E order \in Orders(DirNames) :
       LET l == list_projects(ClientState, order)
       IN  Called("list_projects", <<>>, Done(Returned(l.ret), l.log, l.st))

CallGetProjectDetails(name) ==
  \E y, d \in BOOLEAN :
    Called("get_project_details", [pname |-> name],
           api_get_project_details(ClientState, name,
             [NoFiles EXCEPT !.yaml = y, !.dockerfile = d]))

CallGetFuzzTargets(name) ==
  \E script \in ApiScripts :
    Called("get_fuzz_targets", [pname |-> name],
           api_get_fuzz_targets(ClientState, name,
             [NoFiles EXCEPT !.script = script]))

CallCheckProjectExists(name) ==
  /\ Len(heap) < MaxCalls \/ Truthy(cached_projects, heap)
  /\ \E order \in Orders(DirNames) :
       Called("check_project_exists", [pname |-> name],
              check_project_exists(ClientState, name, order))

CallGetProjectStats(name) ==
  Called("get_project_stats", [pname |-> name],
         get_project_stats(ClientState, name))

CallGetProjectBuilds(name) ==
  Called("get_project_builds", [pname |-> name],
         get_project_builds(ClientState, name))

CallSetupLocalFuzzing(name) ==
  \E given, writable \in BOOLEAN, script \in ApiScripts :
    Called("setup_local_fuzzing", [pname |-> name, fuzz_target |-> given],
           setup_local_fuzzing(ClientState, name, given,
             [NoFiles EXCEPT !.script = script, !.writable = writable]))

CallApiRunLocalFuzzing(name) ==
  \E given, present \in BOOLEAN, duration \in Durations :
    Called("run_local_fuzzing",
           [pname |-> name, fuzz_target |-> given, duration |-> duration],
           api_run_local_fuzzing(ClientState, name, given, duration,
             [NoFiles EXCEPT !.target = present]))

CallCollectCoverage(name) ==
  \E given, corpus_given, present, corpus, writable \in BOOLEAN :
    Called("collect_coverage",
           [pname |-> name, fuzz_target |-> given, corpus_dir |-> corpus_given],
           collect_coverage(ClientState, name, given, corpus_given,
             [NoFiles EXCEPT !.target = present, !.corpus = corpus,
                             !.writable = writable]))

CallGetCoverage(name) ==
  \E start, end \in ApiDates, format \in Formats :
    Called("get_coverage",
           [pname |-> name, start_date |-> start, end_date |-> end,
            format |-> format],
           get_coverage(ClientState, name, start, end, format, ApiNow, creds))

CallClientGetCoverageFromOssFuzz(name) ==
  Called("client.get_coverage_from_oss_fuzz", [pname |-> name],
         Done(Returned(get_coverage_from_oss_fuzz(creds, name)), <<>>,
              ClientState))

CallClientGetCoverage(name) ==
  Called("client.get_coverage", [pname |-> name],
         Done(Returned(client_get_coverage(creds, name, ApiNow)), <<>>,
              ClientState))

CallGetCrashReports(name) ==
  \E start, end \in ApiDates, format \in Formats :
    Called("get_crash_reports",
           [pname |-> name, start_date |-> start, end_date |-> end,
            format |-> format],
           get_crash_reports(ClientState, name, start, end, format, ApiNow))

CallGetCoverageReport(name) ==
  \E given, writable \in BOOLEAN :
    Called("get_coverage_report", [pname |-> name, download_path |-> given],
           get_coverage_report(ClientState, name, given,
             [NoFiles EXCEPT !.writable = writable]))

CallDownloadCorpus(name) ==
  \E fuzzer \in FuzzerNames, writable \in BOOLEAN :
    Called("download_corpus", [pname |-> name, fuzzer_name |-> fuzzer],
           download_corpus(ClientState, name, fuzzer,
             [NoFiles EXCEPT !.writable = writable]))

\* the caller takes the outcome
ApiReturn ==
  /\ call_pc = "done"
  /\ call_pc' = "idle"
  /\ call_fn' = "none"
  /\ call_args' = <<>>
  /\ call_ret' = Raised("none")
  /\ fs_log' = <<>>
  /\ UNCHANGED <<cliVars, memVars, notApi>>

NextApi ==
  \/ \E name \in ApiNames : CallGetProjectDetails(name)
  \/ \E name \in ApiNames : CallGetFuzzTargets(name)
  \/ \E name \in ApiNames : CallCheckProjectExists(name)
  \/ \E name \in ApiNames : CallGetProjectStats(name)
  \/ \E name \in ApiNames : CallGetProjectBuilds(name)
  \/ \E name \in ApiNames : CallSetupLocalFuzzing(name)
  \/ \E name \in ApiNames : CallApiRunLocalFuzzing(name)
  \/ \E name \in ApiNames : CallCollectCoverage(name)
  \/ \E name \in ApiNames : CallGetCoverage(name)
  \/ \E name \in ApiNames : CallGetCrashReports(name)
  \/ \E name \in ApiNames : CallGetCoverageReport(name)
  \/ \E name \in ApiNames : CallClientGetCoverageFromOssFuzz(name)
  \/ \E name \in ApiNames : CallClientGetCoverage(name)
  \/ \E name \in ApiNames : CallDownloadCorpus(name)
  \/ ApiReturn

SpecApi == InitApi /\ [][NextApi]_vars

\* list_projects and check_project_exists over a repository that changes
\* between the calls
NextExists ==
  \/ \E l \in CacheRoots : ApiMkRoot(l)
  \/ \E l \in CacheRoots : ApiRmRoot(l)
  \/ \E l \in CacheRoots, n \in DirNames : ApiMkProject(l, n)
  \/ \E l \in CacheRoots, n \in DirNames : ApiRmProject(l, n)
  \/ CallListProjects
  \/ \E name \in ApiNames : CallCheckProjectExists(name)
  \/ \E name \in ApiNames : CallGetProjectDetails(name)
  \/ ApiReturn

SpecExists == InitApi /\ [][NextExists]_vars

\* the public functions that take a project name
NameTaking ==
  {"get_project_details", "get_fuzz_targets", "check_project_exists",
   "get_project_stats", "get_project_builds", "setup_local_fuzzing",
   "run_local_fuzzing", "collect_coverage", "get_coverage",
   "get_crash_reports", "get_coverage_report", "download_corpus"}

\* a call of one of them has returned or raised, with a name that
\* validation rejects
InvalidNameCall ==
  /\ call_pc = "done"
  /\ call_fn \in NameTaking
  /\ ~validate_project_name(call_args.pname).ok

\* C13 as claimed: every public function that takes a project name raises
\* ValueError on an invalid name, with no filesystem operation before.
C13_InvalidNameRaises ==
  InvalidNameCall =>
    /\ ~call_ret.ok
    /\ call_ret.exc = "ValueError"
    /\ fs_log = <<>>

\* C13: on an invalid project name every public function that takes one
\* performs no filesystem operation; check_project_exists then returns
\* False, every other one raises ValueError to its caller.
C13_InvalidNameRejected ==
  InvalidNameCall =>
    /\ fs_log = <<>>
    /\ IF call_fn = "check_project_exists"
         THEN call_ret.ok /\ call_ret.value = FALSE
         ELSE ~call_ret.ok /\ call_ret.exc = "ValueError"

C13_Witness ==
  /\ InvalidNameCall
  /\ call_fn = "setup_local_fuzzing"
  /\ call_args.pname = <<"a", "!">>
  /\ call_ret.exc = "ValueError"
  /\ fs_log = <<>>

\* the functions that depend on the remote service
RemoteDependent ==
  {"get_coverage", "get_crash_reports", "get_coverage_report",
   "download_corpus", "get_project_stats"}

\* the arguments next to the project name pass validation: the date range
\* of get_coverage and get_crash_reports, the fuzzer name of download_corpus
OtherArgsValid ==
  /\ call_fn \in {"get_coverage", "get_crash_reports"} =>
       validate_date_range(call_args.start_date, call_args.end_date,
                           ApiNow).ok
  /\ call_fn = "download_corpus" => Given(call_args.fuzzer_name)

\* C14: without credentials each remote-dependent function, called with a
\* valid project name (and other arguments that pass validation), returns a
\* result instead of raising, and the result has an 'error' or a 'warning'
\* field.
C14_ExplainedResult ==
  (/\ call_pc = "done"
   /\ ~creds
   /\ call_fn \in RemoteDependent
   /\ validate_project_name(call_args.pname).ok
   /\ OtherArgsValid) =>
    /\ call_ret.ok
    /\ \/ "error" \in DOMAIN call_ret.value
       \/ "warning" \in DOMAIN call_ret.value

\* the name check_project_exists looks up
Normalised == validate_project_name(call_args.pname)

\* the repository root resolves and its projects directory holds a
\* directory of that name
OnDisk(name) ==
  LET root == get_oss_fuzz_dir(client_dir, where).value
  IN  /\ root # "None"
      /\ HasProjects(where, root)
      /\ name \in proj[root]

\* the client serves a non-empty cached list that holds that name
Listed(name) ==
  /\ Truthy(cached_projects, heap)
  /\ \E i \in DOMAIN heap[cached_projects.id] :
       heap[cached_projects.id][i] = name

CheckDone == call_pc = "done" /\ call_fn = "check_project_exists"

\* C19 as claimed: check_project_exists returns True exactly when the
\* project exists in the repository's projects directory, and False without
\* raising otherwise.
C19_ExistsExactly ==
  CheckDone =>
    /\ call_ret.ok
    /\ call_ret.value = (Normalised.ok /\ OnDisk(Normalised.value))

\* C19: check_project_exists returns True exactly when the normalised name
\* is in the project-name list get_projects serves (the cached list when a
\* non-empty one is stored, else the directories then found under the
\* projects directory, which the call caches), and False without raising
\* for any other name, valid or not.
C19_ListedExactly ==
  CheckDone =>
    /\ call_ret.ok
    /\ call_ret.value = (Normalised.ok /\ Listed(Normalised.value))

\* the cached list still names a project that is gone from the disk
C19_Witness ==
  /\ CheckDone
  /\ call_args.pname = <<"A">>
  /\ call_ret.value = TRUE
  /\ ~OnDisk(<<"a">>)

\* get_project_details(n), called now, returns a result without error
DetailsOk(n) ==
  LET d == api_get_project_details(ClientState, n, NoFiles).ret
  IN  d.ok /\ "error" \notin DOMAIN d.value

\* check_project_exists(n), called now, returns True
CheckTrue(n) ==
  \A order \in Orders(DirNames) :
    check_project_exists(ClientState, n, order).ret.value

\* each of the two functions has answered as the other one answers next
ExistsAgreesWithDetails ==
  /\ CheckDone => (call_ret.value <=> DetailsOk(call_args.pname))
  /\ (call_pc = "done" /\ call_fn = "get_project_details") =>
        ((call_ret.ok /\ "error" \notin DOMAIN call_ret.value)
           <=> CheckTrue(call_args.pname))

\* no non-empty list is cached, or the cached list names the directories
\* now under the projects directory of the client's root
CacheFresh ==
  Truthy(cached_projects, heap) =>
    /\ client_dir \in DOMAIN proj
    /\ Range(heap[cached_projects.id]) = proj[client_dir]

\* C29 as claimed: after any sequence of calls and of additions and
\* removals of project directories, check_project_exists(n) returns True
\* exactly when get_project_details(n) returns a result without error.
C29_ExistsIffDetails == ExistsAgreesWithDetails

\* C29 amended: the same, while the cached project list, when there is
\* one, names the directories now under the projects directory.
C29_ExistsIffDetailsFresh == CacheFresh => ExistsAgreesWithDetails

\* a project added and listed from the cache, and found by both functions
C29_Witness ==
  /\ CheckDone
  /\ Truthy(cached_projects, heap)
  /\ CacheFresh
  /\ call_args.pname = <<"A">>
  /\ call_ret.value = TRUE
  /\ DetailsOk(<<"A">>)

\* C25: get_coverage_from_oss_fuzz and the client's get_coverage return,
\* for every project, what they return with the credential flag the other
\* way round, and so does the public get_coverage built on them: the flag
\* has no influence on a returned value.
C25_CredentialsNoInfluence ==
  call_pc = "done" =>
    /\ call_fn = "client.get_coverage_from_oss_fuzz" =>
          call_ret = Returned(get_coverage_from_oss_fuzz(~creds, call_args.pname))
    /\ call_fn = "client.get_coverage" =>
          call_ret = Returned(client_get_coverage(~creds, call_args.pname, ApiNow))
    /\ call_fn = "get_coverage" =>
          call_ret = get_coverage(ClientState, call_args.pname,
                                  call_args.start_date, call_args.end_date,
                                  call_args.format, ApiNow, ~creds).ret

\* a client with credentials was asked for coverage and answered with the
\* error of the branch without them
C25_Witness ==
  /\ call_pc = "done"
  /\ call_fn = "client.get_coverage_from_oss_fuzz"
  /\ creds
  /\ call_ret.ok
  /\ "error" \in DOMAIN call_ret.value

-----------------------------------------------------------------------------
(* A fuzzing session (custom_fuzzing/api.py): setup_local_fuzzing writes   *)
(* the fuzz target file and run_local_fuzzing takes its path.  A path is   *)
(* the sequence of its segments from the filesystem root; a fuzz_target    *)
(* argument is relative or absolute.                                       *)

\* every variable outside the client, its calls, its lists and the session
notSession == <<extVars, valVars, dateVars, repoVars, recVars, thrVars, fzVars>>

\* os.getcwd()
Cwd == << <<"work">> >>

\* fuzz_target=None
NoTarget == [abs |-> FALSE, segs |-> <<>>]

\* fuzz_target arguments: none, "fuzz", "../x", "/tmp/x", "sub/x"
TargetArgs ==
  {NoTarget,
   [abs |-> FALSE, segs |-> << <<"fuzz">> >>],
   [abs |-> FALSE, segs |-> << <<"..">>, <<"x">> >>],
   [abs |-> TRUE, segs |-> << <<"tmp">>, <<"x">> >>],
   [abs |-> FALSE, segs |-> << <<"sub">>, <<"x">> >>]}

\* os.path.join(os.getcwd(), f"{project_name}_fuzzing")
default_output_dir(name) == Cwd \o <<name \o <<"_fuzzing">>>>

\* os.path.join(output_dir, fuzz_target): an absolute second argument
\* replaces the first
path_join(dir, target) == IF target.abs THEN target.segs ELSE dir \o target.segs

\* the file a path names: each ".." segment leaves the directory before it
RECURSIVE normpath(_, _)
normpath(done, rest) ==
  IF rest = <<>> THEN done
  ELSE IF Head(rest) = <<"..">>
    THEN normpath(IF done = <<>> THEN <<>> ELSE SubSeq(done, 1, Len(done) - 1),
                  Tail(rest))
    ELSE normpath(Append(done, Head(rest)), Tail(rest))

\* the directories that exist while setup_local_fuzzing writes: the root,
\* the working directory, /tmp and the output directory it has just made
DirsDuring(output_dir) == {<<>>, Cwd, << <<"tmp">> >>, output_dir}

\* the path lies under the directory
Inside(dir, path) ==
  Len(path) > Len(dir) /\ SubSeq(path, 1, Len(dir)) = dir

\* setup_local_fuzzing writing the placeholder before it looks for the
\* project
setup_session_write_first(st, pname, fuzz_target, files, dsk) ==
  LET d == setup_local_fuzzing(st, pname, fuzz_target.segs # <<>>, files)
      v == validate_project_name(pname)
      target == IF fuzz_target.segs # <<>> THEN fuzz_target
                ELSE [abs |-> FALSE, segs |-> <<FallbackName(v.value)>>]
  IN  [done |-> d, path |-> <<>>,
       disk |-> IF ~d.ret.ok THEN dsk
                ELSE dsk \cup {normpath(<<>>,
                                 path_join(default_output_dir(v.value), target))}]

\* the end of setup_local_fuzzing: d is the call up to the placeholder's
\* path; the file is opened for writing at fuzz_target_path
write_fuzz_target(d, fuzz_target, dsk) ==
  IF ~d.ret.ok \/ ~d.ret.value.success
    THEN [done |-> d, path |-> <<>>, disk |-> dsk]
  ELSE
    LET r == d.ret.value
        output_dir == default_output_dir(r.project)
        target == IF fuzz_target.segs # <<>> THEN fuzz_target
                  ELSE [abs |-> FALSE, segs |-> <<r.fuzz_target>>]
        fuzz_target_path == path_join(output_dir, target)
        file == normpath(<<>>, fuzz_target_path)
    IN  IF SubSeq(file, 1, Len(file) - 1) \notin DirsDuring(output_dir)
          THEN [done |-> Done(Returned(
                                [error |-> "FileNotFoundError",
                                 success |-> FALSE]
                                  @@ [k \in DOMAIN r \ {"warning"} |-> r[k]]),
                              SubSeq(d.log, 1, Len(d.log) - 1), d.st),
                path |-> <<>>, disk |-> dsk]
          ELSE [done |-> Done(Returned(
                                [fuzz_target_path |-> fuzz_target_path] @@ r),
                              d.log, d.st),
                path |-> fuzz_target_path, disk |-> dsk \cup {file}]

\* setup_local_fuzzing(project_name, fuzz_target=) with the file it writes:
\* the call as above, made once, the returned fuzz_target_path and the
\* files afterwards
setup_session(st, pname, fuzz_target, files, dsk) ==
  CHOOSE out \in
    {write_fuzz_target(d, fuzz_target, dsk) :
       d \in {setup_local_fuzzing(st, pname, fuzz_target.segs # <<>>, files)}} :
    TRUE

\* run_local_fuzzing without its test of the fuzz target
run_session_unchecked(st, pname, fuzz_target, duration, dsk) ==
  api_run_local_fuzzing(st, pname, TRUE, duration,
                        [NoFiles EXCEPT !.target = TRUE])

\* run_local_fuzzing(project_name, fuzz_target, duration=): fuzz_target is
\* a path, "" when it is empty
run_session(st, pname, fuzz_target, duration, dsk) ==
  api_run_local_fuzzing(st, pname, fuzz_target # <<>>, duration,
                        [NoFiles EXCEPT
                           !.target = normpath(<<>>, fuzz_target) \in dsk])

\* the names a session passes: a project, the same in capitals, a rejected one
SessionNames == {<<"a">>, <<"A">>, <<"!">>}

\* the paths a caller hands to run_local_fuzzing besides the one setup gave
RunPaths == {<<>>, Cwd \o << <<"x">> >>, Cwd \o << <<"nope">> >>}

InitSession ==
  /\ InitApi
  /\ creds = FALSE

\* a call made by an idle caller, with the files it leaves
SessionCalled(fn, args, d, dsk, path) ==
  /\ call_pc = "idle"
  /\ call_fn' = fn
  /\ call_args' = args
  /\ call_ret' = d.ret
  /\ fs_log' = d.log
  /\ call_pc' = "done"
  /\ client_dir' = d.st.dir
  /\ where' = d.st.where
  /\ proj' = d.st.proj
  /\ disk' = dsk
  /\ setup_path' = path
  /\ UNCHANGED <<environ, creds, cached_projects, memVars, notSession>>

CallSetupSession(name, target) ==
  \E writable \in BOOLEAN :
    \E r \in {setup_session(ClientState, name, target,
                            [NoFiles EXCEPT !.writable = writable], disk)} :
      SessionCalled("setup_local_fuzzing",
                    [pname |-> name, fuzz_target |-> target],
                    r.done, r.disk,
                    IF r.path = <<>> THEN setup_path ELSE r.path)

CallRunSession(name, path, duration) ==
  SessionCalled("run_local_fuzzing",
                [pname |-> name, fuzz_target |-> path, duration |-> duration],
                run_session(ClientState, name, path, duration, disk),
                disk, setup_path)

\* the environment deletes a file setup_local_fuzzing wrote
RemoveFile(file) ==
  /\ call_pc = "idle"
  /\ file \in disk
  /\ disk' = disk \ {file}
  /\ UNCHANGED <<setup_path, cliVars, callVars, memVars, notSession>>

NextSession ==
  \/ ApiMkRoot(HomeDir)
  \/ ApiRmRoot(HomeDir)
  \/ \E n \in DirNames : ApiMkProject(HomeDir, n)
  \/ \E n \in DirNames : ApiRmProject(HomeDir, n)
  \/ \E file \in disk : RemoveFile(file)
  \/ \E name \in SessionNames, target \in TargetArgs :
       CallSetupSession(name, target)
  \/ \E name \in SessionNames, path \in RunPaths \cup {setup_path},
        duration \in Durations : CallRunSession(name, path, duration)
  \/ ApiReturn

SpecSession == InitSession /\ [][NextSession]_vars

RunDone == call_pc = "done" /\ call_fn = "run_local_fuzzing"

\* the file the fuzz_target argument of the call names exists
TargetOnDisk == normpath(<<>>, call_args.fuzz_target) \in disk

SetupStep ==
  /\ call_pc = "idle"
  /\ call_pc' = "done"
  /\ call_fn' = "setup_local_fuzzing"

\* the call of this step returned a result with success False
SetupFailed == SetupStep /\ call_ret'.ok /\ ~call_ret'.value.success

\* the output directory of the call of this step
OutputDirOfCall ==
  default_output_dir(validate_project_name(call_args'.pname).value)

\* the client's root and everything outside the output directory stay
SetupFrame ==
  /\ client_dir' = client_dir
  /\ where' = where
  /\ proj' = proj
  /\ {f \in disk' : ~Inside(OutputDirOfCall, f)}
       = {f \in disk : ~Inside(OutputDirOfCall, f)}

\* C27 as claimed: a setup_local_fuzzing call that returns success False
\* leaves the client's oss_fuzz_dir and every file and directory outside
\* output_dir unchanged.
C27_FailedSetupFrame ==
  [][SetupFailed => SetupFrame]_vars

\* C27 amended: a setup_local_fuzzing call that returns success False on a
\* client whose oss_fuzz_dir names an existing directory leaves the
\* client's oss_fuzz_dir and every file and directory outside output_dir
\* unchanged.
C27_FailedSetupFrameKnownRoot ==
  [][(SetupFailed /\ client_dir # "None" /\ PathExists(where, client_dir))
       => SetupFrame]_vars

\* a failed setup on a client that held its root: the only operations are
\* the makedirs of output_dir, the test of oss_fuzz_dir and the test of the
\* project directory
C27_Witness ==
  /\ call_pc = "done"
  /\ call_fn = "setup_local_fuzzing"
  /\ call_ret.ok
  /\ ~call_ret.value.success
  /\ client_dir = HomeDir
  /\ fs_log = <<"makedirs", "exists", "exists">>
  /\ disk # {}

\* C28: every file a setup_local_fuzzing call creates lies inside its
\* output_dir, whatever the fuzz_target argument is (with path separators,
\* ".." segments or an absolute path).
C28_FilesInsideOutputDir ==
  [][SetupStep =>
       \A f \in disk' \ disk : Inside(OutputDirOfCall, f)]_vars

-----------------------------------------------------------------------------
(* The repository reader on a client that other operations have used.  The *)
(* filesystem changes only through the calls; each project directory holds *)
(* a full project.yaml.                                                    *)

\* projects/<name> with a manifest of every key
ProjectDir ==
  [kind |-> "dir", manifest |-> "mapping", keys |-> ManifestKeys,
   dockerfile |-> FALSE, build_script |-> FALSE]

\* what is under <dir>/projects, as the reader sees it
TreeUnder(dir, pr) ==
  [n \in DirNames |->
     IF dir \in DOMAIN pr /\ n \in pr[dir] THEN ProjectDir ELSE NoEntry]

\* the names iterdir() yields under <dir>/projects
ListedUnder(dir, pr) == IF dir \in DOMAIN pr THEN pr[dir] ELSE {}

\* get_projects_from_repo() on a client whose oss_fuzz_dir is dir
reader_list(dir, w, pr, order) ==
  get_projects_from_repo(dir, HasProjects(w, dir), TreeUnder(dir, pr), order)

\* get_project_details_from_repo(name) on a client whose oss_fuzz_dir is dir
reader_details(dir, w, pr, name) ==
  get_project_details_from_repo(dir, HasProjects(w, dir), TreeUnder(dir, pr),
                                name)

InitHistory ==
  /\ ExtOff
  /\ ValOff
  /\ DateOff
  /\ RepoOff
  /\ RecOff
  /\ ThrOff
  /\ FzOff
  /\ SesOff
  /\ environ \in {"None", HomeDir}
  /\ \E kind \in {"absent", "projects"} :
       where = [l \in Locations |-> IF l = HomeDir THEN kind ELSE "absent"]
  /\ \E dirs \in SUBSET DirNames :
       /\ dirs # {} => HasProjects(where, HomeDir)
       /\ proj = [l \in Locations |-> IF l = HomeDir THEN dirs ELSE {}]
  /\ creds = FALSE
  /\ client_dir = client_init(environ)
  /\ cached_projects = None
  /\ heap = <<>>
  /\ stores = <<>>
  /\ call_fn = "none"
  /\ call_args = <<>>
  /\ call_pc = "idle"
  /\ call_ret = Raised("none")
  /\ fs_log = <<>>

CallReaderList ==
  \E order \in Orders(ListedUnder(client_dir, proj)) :
    Called("get_projects_from_repo", <<>>,
           Done(reader_list(client_dir, where, proj, order), <<>>, ClientState))

CallReaderDetails(name) ==
  Called("get_project_details_from_repo", [pname |-> name],
         Done(reader_details(client_dir, where, proj, name), <<>>,
              ClientState))

NextHistory ==
  \/ CallGetOssFuzzDir
  \/ CallCloneOssFuzz
  \/ CallListProjects
  \/ \E name \in DirNames : CallSetupLocalFuzzing(name)
  \/ CallReaderList
  \/ \E name \in DirNames : CallReaderDetails(name)
  \/ ApiReturn

SpecHistory == InitHistory /\ [][NextHistory]_vars

\* the outcomes of the reader call just made, on a client constructed now
\* over the same filesystem and environment
FreshOutcomes ==
  LET dir == client_init(environ)
  IN  IF call_fn = "get_projects_from_repo"
        THEN {reader_list(dir, where, proj, order) :
                order \in Orders(ListedUnder(dir, proj))}
        ELSE {reader_details(dir, where, proj, call_args.pname)}

\* C30: for a fixed filesystem and environment, the outcome of
\* get_projects_from_repo and of get_project_details_from_repo, the records
\* returned or the error raised, is the one a new client gives: it does not
\* depend on the calls of get_oss_fuzz_dir, get_projects, clone_oss_fuzz or
\* setup_local_fuzzing made before.
C30_ReaderIgnoresHistory ==
  (/\ call_pc = "done"
   /\ call_fn \in {"get_projects_from_repo", "get_project_details_from_repo"})
    => call_ret \in FreshOutcomes

====
